---- MODULE Spec2Model ----
(***************************************************************************)
(* A model of the MISC register machine of ga-py: the interpreter          *)
(* (misc.py, MiscVM.run), its instruction table, the assembler and         *)
(* disassembler (asm.py, disasm.py), the maze and its scorer               *)
(* (maze_game.py, maze_scorer.py), the genetic algorithm (genetics.py) and *)
(* the evaluation of a generation on the worker pool (runner.py).          *)
(*                                                                         *)
(* Bit strings (bitarray objects) are modelled by the integer they denote  *)
(* read most-significant bit first, together with their length where the   *)
(* length matters.  The interpreter builds bit strings from bytes with     *)
(* bitarray(bytes), which only the bitarray releases accept in which       *)
(* bitarray(n), for an integer n, is n zero bits; PadNibble is the set of  *)
(* values such a bitarray(4) can hold.                                     *)
(***************************************************************************)
EXTENDS Integers, Sequences, FiniteSets, TLC

VARIABLES
    program,    \* the bytes passed to MiscVM.run
    max_steps,  \* the step budget passed to MiscVM.run
    systable,   \* which syscall table the VM was constructed with
    registers,  \* MiscVM.registers: 16 cells, index 15 is the PC
    memory,     \* MiscVM.memory.container
    steps,      \* local variable steps of run
    executed,   \* number of calls of _execute_instruction in this run
    rt,         \* the Runtime record: operands of the current instruction
    status,     \* "idle", "running", "returned", "escaped"; of a run_debug
                \* generator "stepping", "exhausted", "raised"
    result,     \* the VMResult returned by run, or the escaping exception
    runs,       \* number of calls of run or run_debug on this MiscVM object
    first,      \* the observable outcome of the first call of run
    maze,       \* the player state and statistics of the Maze of the run
    source,     \* the assembler source the program was assembled from
    stream,     \* the character codes written to the output stream
    called      \* id of the handler the last instruction invoked, or NoHandler

vmvars == <<program, max_steps, systable, registers, memory, steps, executed,
            rt, status, result, runs, first, maze, source, stream, called>>

VARIABLES
    asm_pc,     \* "source", "assembled", "decoded", "disassembled", "reassembled"
    asm_in,     \* the source text given to assemble
    asm_out,    \* assemble(asm_in)
    decoded,    \* the interpreter's decoding of each emitted instruction
    dis_out,    \* disassemble(asm_out)
    re_out,     \* assemble(dis_out)
    resolved    \* the resolved operands assemble computed for each code line

asmvars == <<asm_pc, asm_in, asm_out, decoded, dis_out, re_out, resolved>>

VARIABLES
    width,          \* Maze.width
    height,         \* Maze.height
    grid,           \* Maze.grid: the character of each cell <<y, x>>
    start_position, \* Maze.start_position, NoCell before it is drawn
    finish,         \* (Maze.finish_y, Maze.finish_x), NoCell before it is drawn
    stack,          \* local variable stack of _carve_passages
    maze_pc,        \* "init", "carve", "start", "finish" in __init__, then "ready"
    maze_op,        \* last operation: "new", a direction, "reset", "grade"
    maze_before,    \* the player state and statistics before the last operation
    score           \* local variable score of process_individual, or NoScore

mazevars == <<width, height, grid, start_position, finish, stack, maze_pc,
              maze_op, maze_before, score>>

VARIABLES
    population,         \* local variable population of GeneticAlgo.run
    scored_population,  \* local variable scored_population of run
    current_generation, \* local variable current_generation of run
    total_generations,  \* argument total_generations of run
    hooks,              \* "default" (those of __init__) or "runner"
    mutation_rate,      \* GeneticAlgo.point_mutation_rate, in percent
    crossover_rate,     \* GeneticAlgo.crossover_rate, in percent
    ga_pc,              \* "idle", "start", "test", "select", "returned", "raised"
    ga_error,           \* the exception run raised, or "none"
    ga_result,          \* the list run returned
    calls,              \* how often run has called test_func, _select, the
                        \* reproduction and the finish hook
    program_bytes,      \* argument program_bytes of _mutate
    mutated_bits,       \* local variable mutated_bits of _mutate
    mut_i,              \* local variable i of _mutate
    mut_iter,           \* number of iterations of the loop of _mutate so far
    mut_pc,             \* "idle", "enter", "loop", "done"
    mut_event,          \* the last mutation event: its type, position and bit
    mut_events,         \* number of mutation events so far
    mut_out,            \* the bytes _mutate returned
    p1_bytes,           \* argument p1_bytes of _crossover
    p2_bytes,           \* argument p2_bytes of _crossover
    crossover,          \* local variable crossover of _crossover, or -1
    children,           \* the pair _crossover returned
    cross_pc            \* "idle", "enter", "done"

crossvars == <<p1_bytes, p2_bytes, crossover, children, cross_pc>>

VARIABLES
    normalized_scores,  \* local variable normalized_scores of _select, each
                        \* weight a fraction num / den
    chosen,             \* zip(p1, p2) of _select, as indices of the individuals
    selected,           \* the list of pairs _select returned
    select_pc           \* "idle", "enter", "draw", "done"

selvars == <<normalized_scores, chosen, selected, select_pc>>

gavars == <<population, scored_population, current_generation,
            total_generations, hooks, mutation_rate, crossover_rate, ga_pc,
            ga_error, ga_result, calls, program_bytes, mutated_bits, mut_i,
            mut_pc, mut_event, mut_events, mut_out, mut_iter, crossvars,
            selvars>>

VARIABLES
    objects,    \* the Maze objects of the worker processes, by identity
    task_plan,  \* per task: the handler ids its program's run invokes
    task_halt,  \* per task: the halted field of the result of its run
    task_pc,    \* per task: "queued", "running", "graded", "raised"
    task_at,    \* per task: how many handlers its run has invoked
    task_score, \* per task: the score process_individual returned
    results,    \* what imap_unordered has to hand out, in completion order
    pool_pc     \* test: "idle", "running", "returned", "raised"

poolvars == <<objects, task_plan, task_halt, task_pc, task_at, task_score,
              results, pool_pc>>

auxvars == <<mazevars, gavars, poolvars>>

vars == <<vmvars, asmvars, auxvars>>

----------------------------------------------------------------------------
(* Bounds of the model *)

MaxBudget == 5          \* step budgets 0..MaxBudget, and one long budget
MaxRuns == 2            \* calls of run on one MiscVM object
LongLen == 256          \* bytes of the long straight-line program
MaxCalls == 4           \* direct calls of syscall handlers in one behaviour

----------------------------------------------------------------------------
(* Program constants *)

NUM_REGISTERS == 16
RIP_REG == 15
WORD_LENGTH == 8
INSTRUCTION_LENGTH == 2
OP_LEN == 4
REG_LEN == 4

MemSize == WORD_LENGTH * 8

Byte == 0 .. 255
Nibble == 0 .. 15
RegIndex == 0 .. (NUM_REGISTERS - 1)

\* the values of bitarray(4), the padding put in front of a 4-bit opcode
\* (_read_instruction) and of a 4- or 12-bit immediate (Immediate.unsigned)
PadNibble == {0}

----------------------------------------------------------------------------
(* Integer helpers for Python's bit operators *)

RECURSIVE Bitwise(_, _, _, _)
Bitwise(f, a, b, n) ==
    IF n = 0 THEN 0
    ELSE f[a % 2][b % 2] + 2 * Bitwise(f, a \div 2, b \div 2, n - 1)

XorBit == [x \in {0, 1} |-> [y \in {0, 1} |-> (x + y) % 2]]
AndBit == [x \in {0, 1} |-> [y \in {0, 1} |-> x * y]]
OrBit  == [x \in {0, 1} |-> [y \in {0, 1} |-> IF x + y > 0 THEN 1 ELSE 0]]

\* Python's a ^ b on small non-negative integers
PyXor(a, b) == Bitwise(XorBit, a, b, 16)

Min(a, b) == IF a < b THEN a ELSE b
Max(a, b) == IF a > b THEN a ELSE b

\* MIN_S = -(2^7) + 1, MAX_S = 2^7 - 1, MAX_U = 2^8 - 1, where ^ is
\* Python's exclusive or and binds weaker than the binary minus
MIN_S == (0 - PyXor(2, 7)) + 1
MAX_S == PyXor(2, 7 - 1)
MAX_U == PyXor(2, 8 - 1)

\* ba2int(v, signed=True) of an n-bit value
Signed(v, n) == IF v >= 2 ^ (n - 1) THEN v - 2 ^ n ELSE v

\* int2ba(x, 8, signed=True) as the byte it denotes (x in -128..127)
ToByteSigned(x) == IF x < 0 THEN x + 256 ELSE x

----------------------------------------------------------------------------
(* Immediate (misc.py, class Immediate) *)

\* Immediate.signed: ba2int(self.value, True)
ImmSigned(value, len) == Signed(value, len)

\* Immediate.unsigned: struct.unpack(fmt, (bitarray(len % 8) + value).tobytes())
\* fmt is "<H" for length 2 and "<B" for length 1; pad is the value of
\* bitarray(len % 8)
ImmUnsigned(value, len, length, pad) ==
    LET padded == (IF len % 8 = 0 THEN 0 ELSE pad) * (2 ^ len) + value
    IN  IF length = 2
        THEN (padded \div 256) + 256 * (padded % 256)
        ELSE padded

----------------------------------------------------------------------------
(* The instruction table MiscVM.OPS *)

OP_NOP == 0
OP_SYSCALL == 1
OP_MOV_REG_IMM == 2
OP_MOV_REG_REG_SHR == 3
OP_MOV_REG_REG_SHL == 4
OP_MOV_REG_REG_ADD == 5
OP_LD_REG_MEM == 6
OP_ST_MEM_REG == 7
OP_ADD == 8
OP_SUB == 9
OP_AND == 10
OP_OR == 11
OP_XOR == 12
OP_NOT == 13
OP_JMP == 14
OP_JZ == 15
OP_RAW_DUMP == 255

\* third column of OPS
OpArg(op) ==
    CASE op \in {OP_NOP, OP_SYSCALL} -> "I"
      [] op \in {OP_MOV_REG_IMM, OP_NOT, OP_JMP} -> "RI"
      [] OTHER -> "RRI"

\* fourth column of OPS
OpRes(op) ==
    CASE op = OP_NOP -> "NUL"
      [] op = OP_SYSCALL -> "SYS"
      [] op \in {OP_MOV_REG_IMM, OP_MOV_REG_REG_SHR, OP_MOV_REG_REG_SHL,
                 OP_ST_MEM_REG, OP_AND, OP_OR, OP_XOR, OP_NOT} -> "MUT"
      [] op \in {OP_ADD, OP_SUB} -> "SMUT"
      [] op = OP_MOV_REG_REG_ADD -> "UMUT"
      [] op = OP_LD_REG_MEM -> "MEM"
      [] op \in {OP_JMP, OP_JZ} -> "PC"

NoRuntime == [op |-> -1, d_i |-> -1, s_i |-> -1, i |-> -1, ilen |-> 0,
              length |-> 0, pc |-> 0]

\* MiscVM._update_rt with _get_imm, _get_reg_imm, _get_reg_reg_imm:
\* b0, b1 are the two instruction bytes, pc the PC after the advance
UpdateRt(op, b0, b1, pc) ==
    CASE OpArg(op) = "I" ->
            [op |-> op, d_i |-> -1, s_i |-> -1,
             i |-> (b0 % 16) * 256 + b1, ilen |-> 12, length |-> 2, pc |-> pc]
      [] OpArg(op) = "RI" ->
            [op |-> op, d_i |-> b0 % 16, s_i |-> -1,
             i |-> b1, ilen |-> 8, length |-> 1, pc |-> pc]
      [] OpArg(op) = "RRI" ->
            [op |-> op, d_i |-> b0 % 16, s_i |-> b1 \div 16,
             i |-> b1 % 16, ilen |-> 4, length |-> 1, pc |-> pc]

BitNotNeg(d) == (256 - d) % 256

\* ~rt.d.value on an 8-bit bitarray
BitNot(d) == 255 - d

\* the lambdas of OPS that compute an integer or a bit string from registers
OpFunc(op, regs, r, pad) ==
    LET d == regs[r.d_i]
        s == regs[r.s_i]
        iu == ImmUnsigned(r.i, r.ilen, r.length, pad)
        is == ImmSigned(r.i, r.ilen)
    IN  CASE op = OP_MOV_REG_IMM -> r.i
          [] op = OP_MOV_REG_REG_SHR -> IF iu >= 8 THEN 0 ELSE s \div (2 ^ iu)
          [] op = OP_MOV_REG_REG_SHL -> IF iu >= 8 THEN 0 ELSE (s * (2 ^ iu)) % 256
          [] op = OP_MOV_REG_REG_ADD -> s + iu
          [] op = OP_ADD -> Signed(d, 8) + Signed(s, 8) + is
          [] op = OP_SUB -> Signed(d, 8) - Signed(s, 8) + is
          [] op = OP_AND -> Bitwise(AndBit, d, s, 8)
          [] op = OP_OR -> Bitwise(OrBit, d, s, 8)
          [] op = OP_XOR -> Bitwise(XorBit, d, s, 8)
          [] op = OP_NOT -> BitNot(d)
          [] op = OP_JMP -> Signed(d, 8) + iu
          [] op = OP_JZ -> IF d = 0 THEN s + iu ELSE r.pc

\* the address computed by the lambda of OP_LD_REG_MEM (a store into memory)
LdRegMemAddr(regs, r) == regs[r.d_i] + ImmSigned(r.i, r.ilen)

\* the address computed by the lambda of OP_ST_MEM_REG (a read of memory)
StMemRegAddr(regs, r) == regs[r.s_i] + ImmSigned(r.i, r.ilen)

----------------------------------------------------------------------------
(* Memory (misc.py, class Memory): container is a Python list *)

\* container[addr] raises IndexError exactly outside -len..len-1
MemoryIndexOk(addr) == addr >= 0 - MemSize /\ addr <= MemSize - 1

\* the cell a Python list index denotes
MemoryCell(addr) == IF addr < 0 THEN addr + MemSize ELSE addr

----------------------------------------------------------------------------
(* Syscall tables *)

\* misc.py systable: 0 exit_handler, 1 put_handler; test_vm.py uses {};
\* build_systable of syscalls.py: the ids of the Syscall subclasses
SystableIds(tab) ==
    CASE tab = "demo" -> {0, 1}
      [] tab = "runner" -> {0, 1, 16, 17, 18, 19, 20, 21}
      [] OTHER -> {}

Outcome(regs, mem, raised, code) ==
    [registers |-> regs, memory |-> mem, raised |-> raised, code |-> code]

\* Register.value setter
RegisterSet(regs, mem, d, v) ==
    IF d = RIP_REG
    THEN Outcome(regs, mem, "Register is protected", -1)
    ELSE Outcome([regs EXCEPT ![d] = v], mem, "none", -1)

\* exit_handler and put_handler of misc.py
DemoSyscall(id, regs, mem) ==
    IF id = 0
    THEN Outcome(regs, mem, "Stop", regs[0] % 256)
    ELSE RegisterSet(regs, mem, 0, 1)

\* the execute methods of syscalls.py and maze_syscalls.py: ExitSyscall and
\* PutcSyscall read rt.registers, which Runtime does not have; GetFinishPos
\* and GetPlayerPos pass the float WORD_LENGTH / 8 to int.to_bytes; the move
\* syscalls return rt
RunnerSyscall(id, regs, mem) ==
    CASE id \in {0, 1} -> Outcome(regs, mem, "AttributeError", -1)
      [] id \in {20, 21} -> Outcome(regs, mem, "TypeError", -1)
      [] OTHER -> Outcome(regs, mem, "none", -1)

Syscall(tab, id, regs, mem) ==
    IF tab = "demo" THEN DemoSyscall(id, regs, mem) ELSE RunnerSyscall(id, regs, mem)

\* MiscVM.pc setter applied by the PC branch
SetPc(regs, v) == [regs EXCEPT ![RIP_REG] = v]

\* MiscVM._execute_instruction
ExecuteInstruction(tab, regs, mem, r, pad) ==
    LET ret == OpRes(r.op)
    IN  CASE ret = "SYS" ->
               LET id == ImmUnsigned(r.i, r.ilen, r.length, pad)
               IN  IF id \in SystableIds(tab)
                   THEN Syscall(tab, id, regs, mem)
                   ELSE Outcome(regs, mem, "Unknown syscall", -1)
          [] ret = "NUL" -> Outcome(regs, mem, "none", -1)
          [] ret = "MUT" ->
               IF r.op = OP_ST_MEM_REG
               THEN LET addr == StMemRegAddr(regs, r)
                    IN  IF MemoryIndexOk(addr)
                        THEN RegisterSet(regs, mem, r.d_i, mem[MemoryCell(addr)])
                        ELSE Outcome(regs, mem, "Illegal memory access", -1)
               ELSE RegisterSet(regs, mem, r.d_i, OpFunc(r.op, regs, r, pad))
          [] ret = "SMUT" ->
               RegisterSet(regs, mem, r.d_i,
                   ToByteSigned(Min(MAX_S, Max(MIN_S, OpFunc(r.op, regs, r, pad)))))
          [] ret = "UMUT" ->
               RegisterSet(regs, mem, r.d_i,
                   Min(MAX_U, Max(0, OpFunc(r.op, regs, r, pad))))
          [] ret = "MEM" ->
               LET addr == LdRegMemAddr(regs, r)
               IN  IF MemoryIndexOk(addr)
                   THEN Outcome(regs, [mem EXCEPT ![MemoryCell(addr)] = regs[r.s_i]],
                                "none", -1)
                   ELSE Outcome(regs, mem, "Illegal memory access", -1)
          [] ret = "PC" ->
               Outcome(SetPc(regs, Min(MAX_U, Max(0, OpFunc(r.op, regs, r, pad)))),
                       mem, "none", -1)

----------------------------------------------------------------------------
(* Maze (maze_game.py) *)

WALL == "#"
FLOOR == " "

\* the Maze(from_data = ...) object the runs of the interpreter are given
MazeHeight == 5
MazeWidth == 5
StartCell == <<1, 1>>
FinishCell == <<3, 3>>

\* the FLOOR cells of the grid; every other cell is WALL
FloorCells == {<<1, 1>>, <<1, 2>>, <<1, 3>>, <<2, 1>>, <<2, 3>>,
               <<3, 1>>, <<3, 2>>, <<3, 3>>}

\* the cells of a grid of h rows and w columns
Cells(h, w) == (0 .. (h - 1)) \X (0 .. (w - 1))

DataGrid ==
    [c \in Cells(MazeHeight, MazeWidth) |->
        IF c \in FloorCells THEN FLOOR ELSE WALL]

\* an attribute __init__ has not assigned yet
NoCell == <<-1, -1>>
NoPlayer ==
    [player |-> NoCell, total_steps |-> 0, valid_moves |-> 0, visited |-> {}]
NoScore == -1000000

\* Maze.reset without the assignment of visited_cells
MazeResetUnvisited ==
    [player |-> start_position, total_steps |-> 0, valid_moves |-> 0,
     visited |-> {}]

\* Maze.reset
MazeReset ==
    [player |-> start_position, total_steps |-> 0, valid_moves |-> 0,
     visited |-> {start_position}]

\* move_map of Maze.move
MoveMap(dir) ==
    CASE dir = "w" -> <<-1, 0>>
      [] dir = "a" -> <<0, -1>>
      [] dir = "s" -> <<1, 0>>
      [] dir = "d" -> <<0, 1>>

\* a move that goes through walls
MazeMoveAnywhere(m, dir) ==
    LET ny == m.player[1] + MoveMap(dir)[1]
        nx == m.player[2] + MoveMap(dir)[2]
    IN  IF 0 <= ny /\ ny < height /\ 0 <= nx /\ nx < width
        THEN [player |-> <<ny, nx>>, total_steps |-> m.total_steps + 1,
              valid_moves |-> m.valid_moves + 1,
              visited |-> m.visited \cup {<<ny, nx>>}]
        ELSE [m EXCEPT !.total_steps = m.total_steps + 1]

\* Maze.move counting a step only when the player moves
MazeMoveValidOnly(m, dir) ==
    LET ny == m.player[1] + MoveMap(dir)[1]
        nx == m.player[2] + MoveMap(dir)[2]
    IN  IF /\ 0 <= ny /\ ny < height /\ 0 <= nx /\ nx < width
           /\ grid[<<ny, nx>>] # WALL
        THEN [player |-> <<ny, nx>>, total_steps |-> m.total_steps + 1,
              valid_moves |-> m.valid_moves + 1,
              visited |-> m.visited \cup {<<ny, nx>>}]
        ELSE m

\* Maze.move
MazeMove(m, dir) ==
    LET ny == m.player[1] + MoveMap(dir)[1]
        nx == m.player[2] + MoveMap(dir)[2]
    IN  IF /\ 0 <= ny /\ ny < height /\ 0 <= nx /\ nx < width
           /\ grid[<<ny, nx>>] # WALL
        THEN [player |-> <<ny, nx>>, total_steps |-> m.total_steps + 1,
              valid_moves |-> m.valid_moves + 1,
              visited |-> m.visited \cup {<<ny, nx>>}]
        ELSE [m EXCEPT !.total_steps = m.total_steps + 1]

\* Maze.is_finished
IsFinished(m) == m.player = finish

(* maze_scorer.py *)

REWARD_FINISH == 10000
REWARD_UNIQUE_CELL == 50
REWARD_VALID_MOVE == 5
PENALTY_STEP == 1

\* grade_maze_performance without the penalty for a halted run
GradeNoPenalty(r, m) ==
    (IF IsFinished(m) THEN REWARD_FINISH ELSE 0)
    + Cardinality(m.visited) * REWARD_UNIQUE_CELL
    + m.valid_moves * REWARD_VALID_MOVE
    - m.total_steps * PENALTY_STEP

\* grade_maze_performance
GradeMazePerformance(r, m) ==
    LET s0 == IF IsFinished(m) THEN REWARD_FINISH ELSE 0
        s1 == s0 + Cardinality(m.visited) * REWARD_UNIQUE_CELL
        s2 == s1 + m.valid_moves * REWARD_VALID_MOVE
        s3 == s2 - m.total_steps * PENALTY_STEP
    IN  IF r.halted THEN s3 - 100 ELSE s3

\* the direction each move syscall of maze_syscalls.py passes to Maze.move
MoveDir(id) ==
    CASE id = 16 -> "w" [] id = 17 -> "s" [] id = 18 -> "a" [] id = 19 -> "d"

\* the effect on the maze of the handler build_systable registers under id
MazeCalled(id, m) == IF id \in 16 .. 19 THEN MazeMove(m, MoveDir(id)) ELSE m

\* the effect of a syscall instruction on the maze
MazeAfter(tab, r, pad, m) ==
    LET id == ImmUnsigned(r.i, r.ilen, r.length, pad)
    IN  IF r.op = OP_SYSCALL /\ tab = "runner" THEN MazeCalled(id, m) ELSE m

\* no handler was invoked
NoHandler == -1

\* the handler the dispatch of _execute_instruction invokes: systable[rt.i.unsigned]
Dispatched(tab, r, pad) ==
    LET id == ImmUnsigned(r.i, r.ilen, r.length, pad)
    IN  IF r.op = OP_SYSCALL /\ id \in SystableIds(tab) THEN id ELSE NoHandler

\* the effect of a syscall instruction on the output: put_handler prints
\* chr(r[0]); PutcSyscall.execute raises before stream.write is reached
StreamAfter(tab, r, pad, regs, s) ==
    IF Dispatched(tab, r, pad) = 1 /\ tab = "demo" THEN Append(s, regs[0]) ELSE s

----------------------------------------------------------------------------
(* Instruction fetch *)

\* program[pc : pc + 2] on a Python bytes object (never an IndexError)
Slice(prog, pc) ==
    SubSeq(prog, pc + 1, Min(Len(prog), pc + INSTRUCTION_LENGTH))

\* op = bytes(bitarray(4) + instruction[:OP_LEN]): the byte compared with OPS
OpByte(b0, pad) == pad * 16 + (b0 \div 16)

\* int(op) succeeds only when the byte is an ASCII digit
IntOfBytesOk(b) == b >= 48 /\ b <= 57

\* MiscVM._read_instruction and the unpacking of its result in run:
\* "ok" with the opcode, or the error raised
ReadInstruction(prog, pc, pad) ==
    LET bytes == Slice(prog, pc)
    IN  IF Len(bytes) # INSTRUCTION_LENGTH
        THEN [kind |-> "Illegal PC access", op |-> -1]
        ELSE LET ob == OpByte(bytes[1], pad)
             IN  IF ob \in 0 .. 15
                 THEN [kind |-> "ok", op |-> ob]
                 ELSE IF ob = OP_RAW_DUMP
                 THEN [kind |-> "ValueError", op |-> -1]
                 ELSE IF IntOfBytesOk(ob)
                 THEN [kind |-> "Unknown opcode", op |-> -1]
                 ELSE [kind |-> "ValueError", op |-> -1]

CheckRunonLate(x, limit) == x > limit

\* check_runon
CheckRunon(x, limit) == x >= limit

----------------------------------------------------------------------------
(* Assembly text.  A line, after the comment is cut and the line stripped, *)
(* is its first word (head: the text up to the first white space or comma) *)
(* and the rest split at the commas (args), each part being the sequence   *)
(* of its white-space separated words.  A word is a register name, an      *)
(* integer literal, an identifier or directive, or an identifier followed  *)
(* by a colon.                                                             *)

Reg(n) == [k |-> "reg", v |-> n]
Num(n) == [k |-> "int", v |-> n]
Word(w) == [k |-> "word", v |-> w]
Colon(w) == [k |-> "colon", v |-> w]

Line(head, args) == [head |-> head, args |-> args]

AsmError == [ok |-> FALSE, bytes |-> <<>>]

\* parse_operand on one comma-separated part; -1000000 stands for ValueError
ParseError == -1000000

\* str.lower on the identifiers the sources use
Lower(w) ==
    CASE w \in {"END", "End"} -> "end"
      [] w \in {"SKIP", "Skip"} -> "skip"
      [] w = "R1" -> "r1"
      [] OTHER -> w

\* the text of a register operand
RegName(n) == "r" \o ToString(n)

ParseOperand(part, labels) ==
    IF Len(part) # 1 THEN ParseError
    ELSE LET t == part[1]
         IN  CASE t.k = "word" ->
                    IF Lower(t.v) \in DOMAIN labels THEN labels[Lower(t.v)]
                    ELSE ParseError
               [] t.k = "reg" ->
                    IF RegName(t.v) \in DOMAIN labels THEN labels[RegName(t.v)]
                    ELSE t.v
               [] t.k = "int" -> t.v
               [] OTHER -> ParseError

\* the mnemonics of the instruction table: the names of MiscVM.OPS without OP_
Mnemonics ==
    <<"NOP", "SYSCALL", "MOV_REG_IMM", "MOV_REG_REG_SHR", "MOV_REG_REG_SHL",
      "MOV_REG_REG_ADD", "LD_REG_MEM", "ST_MEM_REG", "ADD", "SUB", "AND", "OR",
      "XOR", "NOT", "JMP", "JZ">>

MnemonicKnown(t) == t.k = "word" /\ \E n \in 1 .. 16 : Mnemonics[n] = t.v

MnemonicOp(t) == (CHOOSE n \in 1 .. 16 : Mnemonics[n] = t.v) - 1

\* ctypes.c_uint16(op)
CUint16(x) == x % 65536

\* vm_core.assemble_instruction: the 16-bit word of one instruction, the
\* opcode in its top four bits and the operands in the payload by shape;
\* -1 for an unknown mnemonic
AssembleInstruction(head, o1, o2, o3) ==
    IF ~MnemonicKnown(head) THEN -1
    ELSE LET op == MnemonicOp(head)
         IN  CASE OpArg(op) = "I" -> op * 4096 + (o1 % 4096)
               [] OpArg(op) = "RI" -> op * 4096 + (o1 % 16) * 256 + (o2 % 256)
               [] OpArg(op) = "RRI" ->
                    op * 4096 + (o1 % 16) * 256 + (o2 % 16) * 16 + (o3 % 16)

\* struct.pack('<H', word)
PackLE(word) == <<word % 256, word \div 256>>

IsDirective(ln, d) == ln.head = Word(d) /\ ln.args = <<>>

\* re.match(r'byte\s+([^,]+),\s*(.+)', line)
ByteMatch(ln) == ln.head = Word("byte") /\ Len(ln.args) >= 2

\* re.match(r'^([a-zA-Z0-9_]+):$', line)
LabelMatch(ln) == ln.head.k = "colon" /\ ln.args = <<>>

NoLabels == [n \in {} |-> 0]

Pass1Start ==
    [labels |-> NoLabels, pc |-> 0, in_data |-> FALSE, data_pairs |-> <<>>,
     code_lines |-> <<>>, ok |-> TRUE]

\* the body of the first pass of assemble for one line
Pass1Line(st, ln) ==
    CASE IsDirective(ln, ".data") -> [st EXCEPT !.in_data = TRUE]
      [] IsDirective(ln, ".text") -> [st EXCEPT !.in_data = FALSE]
      [] OTHER ->
         IF st.in_data
         THEN IF ByteMatch(ln)
              THEN LET addr == ParseOperand(ln.args[1], NoLabels)
                       val == IF Len(ln.args) = 2
                              THEN ParseOperand(ln.args[2], NoLabels)
                              ELSE ParseError
                   IN  IF addr = ParseError \/ val = ParseError
                       THEN [st EXCEPT !.ok = FALSE]
                       ELSE [st EXCEPT !.data_pairs = Append(@, <<addr, val>>)]
              ELSE st
         ELSE IF LabelMatch(ln)
              THEN IF Lower(ln.head.v) \in DOMAIN st.labels
                   THEN [st EXCEPT !.ok = FALSE]
                   ELSE [st EXCEPT !.labels = @ @@ (Lower(ln.head.v) :> st.pc)]
              ELSE [st EXCEPT !.code_lines = Append(@, ln), !.pc = @ + 2]

RECURSIVE Pass1(_, _, _)
Pass1(st, lines, n) ==
    IF n > Len(lines) \/ ~st.ok THEN st
    ELSE Pass1(Pass1Line(st, lines[n]), lines, n + 1)

RECURSIVE PairBytes(_, _)
PairBytes(pairs, n) ==
    IF n > Len(pairs) THEN <<>>
    ELSE <<pairs[n][1] % 256, pairs[n][2] % 256>> \o PairBytes(pairs, n + 1)

\* the data section emitted by the second pass
DataSection(pairs) ==
    IF pairs = <<>> THEN <<>>
    ELSE <<240, 255>> \o PairBytes(pairs, 1) \o <<0, 0>>

\* the second pass for one code line: its two bytes, or <<>> on an error
CodeLineBytes(ln, labels) ==
    LET ops == [n \in 1 .. 3 |->
                   IF n <= Len(ln.args) THEN ParseOperand(ln.args[n], labels)
                   ELSE 0]
        word == AssembleInstruction(ln.head, CUint16(ops[1]), CUint16(ops[2]),
                                    CUint16(ops[3]))
    IN  IF Len(ln.args) > 3 \/ \E n \in 1 .. 3 : ops[n] = ParseError
        THEN <<>>
        ELSE IF word = -1 THEN <<>> ELSE PackLE(word)

RECURSIVE Pass2(_, _, _, _)
Pass2(code, labels, n, out) ==
    IF n > Len(code) THEN [ok |-> TRUE, bytes |-> out]
    ELSE LET b == CodeLineBytes(code[n], labels)
         IN  IF b = <<>> THEN AsmError
             ELSE Pass2(code, labels, n + 1, out \o b)

AdjustLabelNone(addr, data_section_len) == addr

\* labels[label] += data_section_len
AdjustLabel(addr, data_section_len) == addr + data_section_len

\* the label table the second pass resolves operands with
AdjustedLabels(st) ==
    [n \in DOMAIN st.labels |->
        AdjustLabel(st.labels[n], Len(DataSection(st.data_pairs)))]

\* assemble(source_code)
Assemble(lines) ==
    LET st == Pass1(Pass1Start, lines, 1)
    IN  IF ~st.ok THEN AsmError
        ELSE Pass2(st.code_lines, AdjustedLabels(st), 1, DataSection(st.data_pairs))

\* resolved_ops of every code line of the second pass, when assemble returns
ResolvedOps(lines) ==
    LET st == Pass1(Pass1Start, lines, 1)
    IN  IF ~Assemble(lines).ok THEN <<>>
        ELSE [n \in 1 .. Len(st.code_lines) |->
                [m \in 1 .. Len(st.code_lines[n].args) |->
                    ParseOperand(st.code_lines[n].args[m], AdjustedLabels(st))]]

----------------------------------------------------------------------------
(* disassemble (disasm.py) *)

DisError == [ok |-> FALSE, lines |-> <<>>]

\* the raw dump loop: lines "byte ADDR, VAL" up to the terminator
RECURSIVE DisData(_, _, _)
DisData(bytes, pc, out) ==
    IF ~(pc + 1 < Len(bytes)) THEN [pc |-> pc, lines |-> out]
    ELSE LET addr == bytes[pc + 1]
             val == bytes[pc + 2]
         IN  IF addr = 0 /\ val = 0 THEN [pc |-> pc + 2, lines |-> out]
             ELSE DisData(bytes, pc + 2,
                     Append(out, Line(Word("byte"), <<<<Num(addr)>>, <<Num(val)>>>>)))

\* the while loop of disassemble.  Decoding an instruction starts with
\* "for name, op_bytes, arg_type, _, _ in MiscVM.OPS": five names for the
\* six fields of the first row of OPS, so the statement raises ValueError
\* before any line is formatted
RECURSIVE Disassemble(_, _, _)
Disassemble(bytes, pc, out) ==
    IF ~(pc < Len(bytes)) \/ pc + INSTRUCTION_LENGTH > Len(bytes)
    THEN [ok |-> TRUE, lines |-> out]
    ELSE IF bytes[pc + 1] = 255 /\ bytes[pc + 2] = 0
    THEN LET d == DisData(bytes, pc + 2,
                     Append(out, Line(Colon(pc), <<<<Word(".data")>>>>)))
         IN  Disassemble(bytes, d.pc, d.lines)
    ELSE DisError

----------------------------------------------------------------------------
(* Inputs: programs in the byte order the interpreter decodes *)

InsI(op, imm12) == <<op * 16 + (imm12 \div 256), imm12 % 256>>
InsRI(op, d, imm8) == <<op * 16 + d, imm8>>
InsRRI(op, d, s, imm4) == <<op * 16 + d, s * 16 + imm4>>

SampleBytes == {0, 3, 100, 127, 128, 255}
SampleImm4 == {0, 5, 7, 8, 15}

\* JMP r0, 0 at address 0: a program that never stops by itself
LoopProgram == InsRI(OP_JMP, 0, 0)

\* LongLen / 2 NOPs
LongProgram == [k \in 1 .. LongLen |-> 0]

\* MOV_REG_IMM r1, a; MOV_REG_IMM r2, b; one RRI instruction on them;
\* SYSCALL 0
RRIPrograms ==
    { InsRI(OP_MOV_REG_IMM, 1, a) \o InsRI(OP_MOV_REG_IMM, 2, b)
        \o InsRRI(op, ds[1], ds[2], i) \o InsI(OP_SYSCALL, 0) :
        a \in SampleBytes, b \in {1, 50, 200},
        op \in {OP_MOV_REG_REG_SHR, OP_MOV_REG_REG_SHL, OP_MOV_REG_REG_ADD,
                OP_ADD, OP_SUB, OP_AND, OP_OR, OP_XOR, OP_JZ},
        ds \in {<<1, 2>>, <<2, 1>>, <<15, 1>>}, i \in SampleImm4 }

\* MOV_REG_IMM r1, a; one RI instruction; SYSCALL 1; SYSCALL 0
RIPrograms ==
    { InsRI(OP_MOV_REG_IMM, 1, a) \o InsRI(op, d, b)
        \o InsI(OP_SYSCALL, 256) \o InsI(OP_SYSCALL, 0) :
        a \in SampleBytes, b \in {0, 2, 42, 255},
        op \in {OP_MOV_REG_IMM, OP_NOT, OP_JMP}, d \in {0, 1, 15} }

\* MOV_REG_IMM r1, a; MOV_REG_IMM r2, v; two memory instructions; SYSCALL 0
MemPrograms ==
    { InsRI(OP_MOV_REG_IMM, 1, a) \o InsRI(OP_MOV_REG_IMM, 2, v)
        \o InsRRI(ops[1], x[1], x[2], i) \o InsRRI(ops[2], 3, 1, i)
        \o InsI(OP_SYSCALL, 0) :
        a \in {0, 3, 10, 60, 63, 64, 70, 255}, v \in {0, 7, 123, 255},
        ops \in {<<OP_ST_MEM_REG, OP_LD_REG_MEM>>, <<OP_LD_REG_MEM, OP_ST_MEM_REG>>},
        x \in {<<1, 2>>, <<15, 2>>}, i \in SampleImm4 }

\* test_jmp: MOV_REG_IMM r0, 1; MOV_REG_IMM r6, end; JMP r6, 0;
\* MOV_REG_IMM r0, 99; end: MOV_REG_IMM r1, 42
JmpTestProgram ==
    InsRI(OP_MOV_REG_IMM, 0, 1) \o InsRI(OP_MOV_REG_IMM, 6, 8)
      \o InsRI(OP_JMP, 6, 0) \o InsRI(OP_MOV_REG_IMM, 0, 99)
      \o InsRI(OP_MOV_REG_IMM, 1, 42)

\* MOV_REG_IMM r1, t; JMP r1, 0; NOP; SYSCALL 0: a jump to the address t
JmpPrograms ==
    { InsRI(OP_MOV_REG_IMM, 1, t) \o InsRI(OP_JMP, 1, 0) \o InsI(OP_NOP, 0)
        \o InsI(OP_SYSCALL, 0) : t \in {0, 3, 4, 6} }

\* SYSCALL k; SYSCALL 0 for the ids of the maze and PUTC handlers
SyscallPrograms ==
    { InsI(OP_SYSCALL, k) \o InsI(OP_SYSCALL, 0) : k \in {1} \cup (16 .. 21) }

SmallPrograms ==
    SyscallPrograms \cup
    { <<>>, <<0>>, LoopProgram, InsI(OP_NOP, 0) \o LoopProgram, JmpTestProgram,
      InsI(OP_SYSCALL, 0), InsI(OP_SYSCALL, 7), InsI(OP_SYSCALL, 16),
      InsI(OP_SYSCALL, 256) \o InsI(OP_SYSCALL, 0),
      InsRI(OP_MOV_REG_IMM, 0, 42) \o InsI(OP_SYSCALL, 0),
      InsRI(OP_MOV_REG_IMM, 15, 0) }

Budgets == 0 .. MaxBudget

(* Inputs: assembler sources *)

Ins1(mn, a) == Line(Word(mn), <<<<a>>>>)
Ins2(mn, a, b) == Line(Word(mn), <<<<a>>, <<b>>>>)
Ins3(mn, a, b, c) == Line(Word(mn), <<<<a>>, <<b>>, <<c>>>>)
ByteLine(a, v) == Line(Word("byte"), <<<<Num(a)>>, <<Num(v)>>>>)

\* MOV_REG_IMM r1, 5; LD_REG_MEM r0, r1, 0; SYSCALL 0
LoadText ==
    << Line(Word(".text"), <<>>),
       Ins2("MOV_REG_IMM", Reg(1), Num(5)),
       Ins3("LD_REG_MEM", Reg(0), Reg(1), Num(0)),
       Ins1("SYSCALL", Num(0)) >>

PairLists ==
    { <<<<5, 123>>>>, <<<<0, 0>>>>, <<<<5, 123>>, <<0, 0>>, <<6, 1>>>>,
      <<<<63, 255>>, <<5, 7>>>>, <<<<5, 1>>, <<5, 123>>>> }

DataLines(pairs) ==
    <<Line(Word(".data"), <<>>)>>
      \o [n \in 1 .. Len(pairs) |-> ByteLine(pairs[n][1], pairs[n][2])]

\* a .data section of byte directives followed by LoadText
DataSources == { DataLines(pairs) \o LoadText : pairs \in PairLists }

\* one instruction of every opcode and shape
InstructionLines ==
    { Ins1(Mnemonics[op + 1], Num(i)) :
        op \in {OP_NOP, OP_SYSCALL}, i \in {0, 1, 16, 291, 4095} }
    \cup { Ins2(Mnemonics[op + 1], Reg(d), Num(i)) :
        op \in {OP_MOV_REG_IMM, OP_NOT, OP_JMP}, d \in {0, 1, 15},
        i \in {0, 42, 255} }
    \cup { Ins3(Mnemonics[op + 1], Reg(d), Reg(sr), Num(i)) :
        op \in {OP_MOV_REG_REG_SHR, OP_MOV_REG_REG_SHL, OP_MOV_REG_REG_ADD,
                OP_LD_REG_MEM, OP_ST_MEM_REG, OP_ADD, OP_SUB, OP_AND, OP_OR,
                OP_XOR, OP_JZ},
        d \in {0, 3, 15}, sr \in {0, 3, 15}, i \in {0, 5, 15} }

LabelLine(name) == Line(Colon(name), <<>>)

\* the shape of test_jmp: a label used before and after its definition
LabelText(def, fwd, back) ==
    << Ins2("MOV_REG_IMM", Reg(6), Word(fwd)),
       Ins2("JMP", Reg(6), Num(0)),
       Ins1("NOP", Num(0)),
       LabelLine(def),
       Ins2("MOV_REG_IMM", Reg(1), Num(42)),
       Ins2("MOV_REG_IMM", Reg(5), Word(back)) >>

DataPrefixes ==
    { <<>> } \cup
    { DataLines(pairs) \o <<Line(Word(".text"), <<>>)>> :
        pairs \in { <<<<5, 123>>>>, <<<<5, 1>>, <<6, 2>>>> } }

\* sources with labels: one label in three spellings, a label on the first
\* line, a label spelled like a register, two labels, a label defined
\* twice, and a label that is not defined
LabelSources ==
    { pre \o LabelText(def, fwd, back) :
        pre \in DataPrefixes, def \in {"end", "END", "End"},
        fwd \in {"end", "END"}, back \in {"end", "End"} }
    \cup { pre \o <<LabelLine("skip"), Ins2("JMP", Reg(0), Word(use))>> :
        pre \in DataPrefixes, use \in {"skip", "SKIP"} }
    \cup { pre \o <<Ins1("NOP", Num(0)), LabelLine(def),
                    Ins2("MOV_REG_IMM", Reg(1), Num(7))>> :
        pre \in DataPrefixes, def \in {"r1", "R1"} }
    \cup { pre \o LabelText("end", "end", "skip") \o <<LabelLine(def)>> :
        pre \in DataPrefixes, def \in {"skip", "Skip", "end", "END"} }
    \cup { pre \o <<Ins2("MOV_REG_IMM", Reg(6), Word("end"))>> :
        pre \in DataPrefixes }

Sources ==
    {<<>>} \cup DataSources \cup { <<ln>> : ln \in InstructionLines }
    \cup { <<ln, Ins1("SYSCALL", Num(0))>> : ln \in InstructionLines }
    \cup LabelSources

----------------------------------------------------------------------------
(* GeneticAlgo (genetics.py) *)

MaxPop == 3
MaxGenerations == 2
MaxEvents == 1

NoCalls == [test |-> 0, select |-> 0, reproduce |-> 0, finish |-> 0]
NoEvent == [type |-> -1, at |-> -1, bit |-> -1]

\* bitarray.bitarray(program_bytes, endian = "little"): bit 8 * k + j is bit j
\* of byte k, counted from the least significant
BitsOfBytes(bs) ==
    [n \in 1 .. (8 * Len(bs)) |->
        (bs[((n - 1) \div 8) + 1] \div (2 ^ ((n - 1) % 8))) % 2]

\* bitarray.tobytes: the last byte is filled up with zero bits
BytesOfBits(bits) ==
    [k \in 1 .. ((Len(bits) + 7) \div 8) |->
        LET Bit(j) == IF 8 * (k - 1) + j + 1 <= Len(bits)
                      THEN bits[8 * (k - 1) + j + 1] * (2 ^ j) ELSE 0
        IN  Bit(0) + Bit(1) + Bit(2) + Bit(3) + Bit(4) + Bit(5) + Bit(6) + Bit(7)]

\* _point_mutate: bits.invert(idx)
PointMutate(bits, idx) == [bits EXCEPT ![idx + 1] = 1 - @]

\* _insert_mutate: bits.insert(idx, b), b the random bit
InsertMutate(bits, idx, b) ==
    SubSeq(bits, 1, idx) \o <<b>> \o SubSeq(bits, idx + 1, Len(bits))

\* _delete_mutate: bits.pop(idx)
DeleteMutate(bits, idx) ==
    SubSeq(bits, 1, idx) \o SubSeq(bits, idx + 2, Len(bits))

\* an insertion after which the cursor moves on by one bit only
MutateEventInsertStep(bits, i, t, b) ==
    LET first_flip == PointMutate(bits, i)
    IN  CASE t = 0 -> [bits |-> PointMutate(first_flip, i), i |-> i + 1]
          [] t = 1 -> [bits |-> InsertMutate(first_flip, i, b), i |-> i + 1]
          [] t = 2 -> [bits |-> DeleteMutate(first_flip, i), i |-> i]

\* the body of `if random.random() < self.point_mutation_rate` in _mutate
\* for mutate_type t and random bit b, followed by the i += 1 of the loop
MutateEvent(bits, i, t, b) ==
    LET first_flip == PointMutate(bits, i)
    IN  CASE t = 0 -> [bits |-> PointMutate(first_flip, i), i |-> i + 1]
          [] t = 1 -> [bits |-> InsertMutate(first_flip, i, b), i |-> i + 2]
          [] t = 2 -> [bits |-> DeleteMutate(first_flip, i), i |-> i]

\* the bit strings the loop of _mutate can end with from cursor i, having had
\* k mutation events, with at most n events in all
RECURSIVE MutateFrom(_, _, _, _)
MutateFrom(bits, i, k, n) ==
    IF i >= Len(bits) THEN {[bytes |-> BytesOfBits(bits), events |-> k]}
    ELSE MutateFrom(bits, i + 1, k, n)
         \cup (IF k < n
               THEN UNION {LET e == MutateEvent(bits, i, t, b)
                           IN  MutateFrom(e.bits, e.i, k + 1, n) :
                              t \in 0 .. 2, b \in 0 .. 1}
               ELSE {})

\* _mutate: what it can return, and the number of events each took
Mutate(bs, rate, k, n) ==
    IF rate = 0 THEN {[bytes |-> bs, events |-> k]}
    ELSE MutateFrom(BitsOfBytes(bs), 0, k, n)

\* a cut anywhere in the shorter parent, odd offsets included
CrossoverCutsAnyByte(p1, p2) == 0 .. Min(Len(p1), Len(p2))

\* random.randint(0, min(len(p1_bytes), len(p2_bytes)) // 2) * 2
CrossoverCuts(p1, p2) ==
    {2 * j : j \in 0 .. (Min(Len(p1), Len(p2)) \div 2)}

\* the two children the other way round
CrossoverAtSwapped(p1, p2, c) ==
    <<SubSeq(p2, 1, c) \o SubSeq(p1, c + 1, Len(p1)),
      SubSeq(p1, 1, c) \o SubSeq(p2, c + 1, Len(p2))>>

\* the children of a cut at c: p1[:c] + p2[c:] and p2[:c] + p1[c:]
CrossoverAt(p1, p2, c) ==
    <<SubSeq(p1, 1, c) \o SubSeq(p2, c + 1, Len(p2)),
      SubSeq(p2, 1, c) \o SubSeq(p1, c + 1, Len(p1))>>

\* _crossover: the pairs of children it can return; random.random() is
\* below 1, so a rate of 1 or more always crosses
Crossover(p1, p2, rate) ==
    (IF rate < 100 THEN {<<p1, p2>>} ELSE {})
    \cup {CrossoverAt(p1, p2, c) : c \in CrossoverCuts(p1, p2)}

\* _normalize_data, up to the positive factor 1 / (max - min), which the
\* relative weights of random.choices cancel
NormalizeData(data) ==
    IF Cardinality({data[k] : k \in DOMAIN data}) = 1
    THEN [k \in DOMAIN data |-> 1]
    ELSE [k \in DOMAIN data |->
            data[k] - (CHOOSE lo \in {data[j] : j \in DOMAIN data} :
                         \A j \in DOMAIN data : lo <= data[j])]

\* the factor NormalizeData leaves out: np.max(data) - np.min(data), or 1
\* for the list of ones
NormalizeDen(data) ==
    IF Cardinality({data[k] : k \in DOMAIN data}) = 1 THEN 1
    ELSE (CHOOSE hi \in {data[j] : j \in DOMAIN data} :
             \A j \in DOMAIN data : hi >= data[j])
         - (CHOOSE lo \in {data[j] : j \in DOMAIN data} :
               \A j \in DOMAIN data : lo <= data[j])

\* the weights _select hands to random.choices, as fractions
Weights(scored) ==
    LET data == [k \in DOMAIN scored |-> scored[k].score]
    IN  [k \in DOMAIN scored |->
            [num |-> NormalizeData(data)[k], den |-> NormalizeDen(data)]]

\* draws that ignore the weights
ChoicesAll(w, n) == [1 .. n -> DOMAIN w]

\* random.choices(scored_population, weights = w, k = n), as indices: each
\* draw is independent, and an element of weight 0 is never drawn
Choices(w, n) == [1 .. n -> {k \in DOMAIN w : w[k].num > 0}]

\* [(x.program_bytes, y.program_bytes) for x, y in zip(p1, p2)]
PairsOf(scored, p1, p2) ==
    [n \in DOMAIN p1 |->
        <<scored[p1[n]].program_bytes, scored[p2[n]].program_bytes>>]

\* _select: the lists of pairs it can return
Select(scored) ==
    {PairsOf(scored, p1, p2) :
        p1 \in Choices(Weights(scored), Len(scored) \div 2),
        p2 \in Choices(Weights(scored), Len(scored) \div 2)}

\* the list comprehension of run: the children of the pairs from the n-th
\* on, each child mutated, with k mutation events before
RECURSIVE Reproduce(_, _, _, _, _)
Reproduce(survivors, n, mrate, crate, k) ==
    IF n > Len(survivors) THEN {[population |-> <<>>, events |-> k]}
    ELSE UNION {UNION {UNION {
                  {[population |-> <<m1.bytes, m2.bytes>> \o rest.population,
                    events |-> rest.events] :
                     rest \in Reproduce(survivors, n + 1, mrate, crate, m2.events)} :
                  m2 \in Mutate(c[2], mrate, m1.events, MaxEvents)} :
                m1 \in Mutate(c[1], mrate, k, MaxEvents)} :
              c \in Crossover(survivors[n][1], survivors[n][2], crate)}

----------------------------------------------------------------------------
(* MiscVM.run *)

NoResult == [halted |-> FALSE, error |-> "none", exit_code |-> -1, steps |-> 0]

VMResult(halted, error, code, n) ==
    [halted |-> halted, error |-> error, exit_code |-> code, steps |-> n]

\* what a caller can observe when run ends
Observed ==
    [status |-> status, result |-> result, registers |-> registers,
     memory |-> memory, maze |-> maze]

ResetSkipsPc == [r \in RegIndex |-> IF r = RIP_REG THEN registers[r] ELSE 0]

\* MiscVM.reset
ResetRegisters == [r \in RegIndex |-> 0]
ResetMemory == [a \in 0 .. (MemSize - 1) |-> 0]

\* the state of a MiscVM after construction, before run is called
VMIdle ==
    /\ registers = [r \in RegIndex |-> 0]
    /\ memory = [a \in 0 .. (MemSize - 1) |-> 0]
    /\ steps = 0
    /\ executed = 0
    /\ rt = NoRuntime
    /\ status = "idle"
    /\ result = NoResult
    /\ runs = 0
    /\ first = [status |-> "idle", result |-> NoResult,
                 registers |-> [r \in RegIndex |-> 0],
                 memory |-> [a \in 0 .. (MemSize - 1) |-> 0], maze |-> MazeReset]
    /\ maze = MazeReset
    /\ stream = <<>>
    /\ called = NoHandler

AsmIdle ==
    /\ asm_pc = "source"
    /\ asm_in = <<>>
    /\ asm_out = AsmError
    /\ decoded = <<>>
    /\ dis_out = DisError
    /\ re_out = AsmError
    /\ resolved = <<>>

\* the Maze(from_data = ...) object after construction
MazeIdle ==
    /\ width = MazeWidth
    /\ height = MazeHeight
    /\ grid = DataGrid
    /\ start_position = StartCell
    /\ finish = FinishCell
    /\ stack = <<>>
    /\ maze_pc = "ready"
    /\ maze_op = "new"
    /\ maze_before = NoPlayer
    /\ score = NoScore

\* no _crossover call in progress
CrossIdle ==
    /\ p1_bytes = <<>>
    /\ p2_bytes = <<>>
    /\ crossover = -1
    /\ children = <<>>
    /\ cross_pc = "idle"

\* no _select call in progress
SelectIdle ==
    /\ normalized_scores = <<>>
    /\ chosen = <<>>
    /\ selected = <<>>
    /\ select_pc = "idle"

\* no GeneticAlgo.run in progress
RunIdle ==
    /\ population = <<>>
    /\ scored_population = <<>>
    /\ current_generation = 0
    /\ total_generations = 0
    /\ hooks = "runner"
    /\ crossover_rate = 0
    /\ ga_pc = "idle"
    /\ ga_error = "none"
    /\ ga_result = <<>>
    /\ calls = NoCalls
    /\ CrossIdle
    /\ SelectIdle

\* no _mutate call in progress
MutIdle ==
    /\ program_bytes = <<>>
    /\ mutated_bits = <<>>
    /\ mut_i = 0
    /\ mut_iter = 0
    /\ mut_pc = "idle"
    /\ mut_event = NoEvent
    /\ mut_events = 0
    /\ mut_out = <<>>

GaIdle ==
    /\ RunIdle
    /\ MutIdle
    /\ mutation_rate = 0

\* no task given to the pool
PoolIdle ==
    /\ objects = <<>>
    /\ task_plan = <<>>
    /\ task_halt = <<>>
    /\ task_pc = <<>>
    /\ task_at = <<>>
    /\ task_score = <<>>
    /\ results = <<>>
    /\ pool_pc = "idle"

AuxIdle ==
    /\ MazeIdle
    /\ GaIdle
    /\ PoolIdle

Init ==
    /\ \/ /\ program \in SmallPrograms
          /\ max_steps \in Budgets
          /\ source = <<>>
          /\ systable \in {"demo", "empty", "runner"}
       \/ /\ program \in RRIPrograms \cup RIPrograms \cup MemPrograms
                           \cup JmpPrograms
          /\ max_steps = MaxBudget
          /\ source = <<>>
          /\ systable = "demo"
       \/ /\ program = LongProgram
          /\ max_steps = LongLen
          /\ source = <<>>
          /\ systable = "demo"
       \/ /\ source \in DataSources
          /\ program = Assemble(source).bytes
          /\ max_steps = MaxBudget
          /\ systable = "demo"
    /\ AuxIdle
    /\ VMIdle
    /\ AsmIdle

\* entry of run: reset, steps = 0, a fresh Runtime; the caller resets the
\* maze before the call (process_individual)
BeginRun ==
    /\ status # "running"
    /\ runs < MaxRuns
    /\ registers' = ResetRegisters
    /\ memory' = ResetMemory
    /\ steps' = 0
    /\ executed' = 0
    /\ rt' = NoRuntime
    /\ status' = "running"
    /\ result' = NoResult
    /\ runs' = runs + 1
    /\ first' = IF runs = 1 THEN Observed ELSE first
    /\ maze' = MazeReset
    /\ stream' = <<>>
    /\ called' = NoHandler
    /\ UNCHANGED <<program, max_steps, systable, source, asmvars, auxvars>>

Return(halted, error, code, n) ==
    /\ status' = "returned"
    /\ result' = VMResult(halted, error, code, n)

\* an exception no except clause of run catches
Escape(exception, n) ==
    /\ status' = "escaped"
    /\ result' = VMResult(TRUE, exception, -1, n)

\* the exceptions run does not catch
Uncaught == {"ValueError", "OverflowError", "AttributeError", "TypeError"}

\* the step budget check at the head of the loop
LimitExceeded ==
    /\ status = "running"
    /\ CheckRunon(steps, max_steps)
    /\ Return(TRUE, "Runtime limit exceeded", -1, steps)
    /\ UNCHANGED <<program, max_steps, systable, registers, memory, steps,
                   executed, rt, runs, first, maze, source, stream, called,
                   asmvars, auxvars>>

\* _read_instruction raises
FetchFail ==
    /\ status = "running"
    /\ ~CheckRunon(steps, max_steps)
    /\ \E pad \in PadNibble :
         LET f == ReadInstruction(program, registers[RIP_REG], pad)
         IN  /\ f.kind # "ok"
             /\ IF f.kind \in Uncaught
                THEN Escape(f.kind, steps + 1)
                ELSE Return(TRUE, f.kind, -1, steps + 1)
    /\ steps' = steps + 1
    /\ UNCHANGED <<program, max_steps, systable, registers, memory, executed,
                   rt, runs, first, maze, source, stream, called, asmvars,
                   auxvars>>

\* the PC setter: int2ba(value, WORD_LENGTH, signed = False)
PcFits(value) == value >= 0 /\ value < 2 ^ WORD_LENGTH

\* self.pc += INSTRUCTION_LENGTH raises OverflowError
AdvanceOverflow ==
    /\ status = "running"
    /\ ~CheckRunon(steps, max_steps)
    /\ \E pad \in PadNibble :
         ReadInstruction(program, registers[RIP_REG], pad).kind = "ok"
    /\ ~PcFits(registers[RIP_REG] + INSTRUCTION_LENGTH)
    /\ Escape("OverflowError", steps + 1)
    /\ steps' = steps + 1
    /\ UNCHANGED <<program, max_steps, systable, registers, memory, executed,
                   rt, runs, first, maze, source, stream, called, asmvars,
                   auxvars>>

\* one iteration of the loop that fetches, advances the PC and executes
Execute ==
    /\ status = "running"
    /\ ~CheckRunon(steps, max_steps)
    /\ PcFits(registers[RIP_REG] + INSTRUCTION_LENGTH)
    /\ \E pad \in PadNibble, ipad \in PadNibble :
         LET pc == registers[RIP_REG]
             f == ReadInstruction(program, pc, pad)
             regs == SetPc(registers, pc + INSTRUCTION_LENGTH)
             r == UpdateRt(f.op, program[pc + 1], program[pc + 2],
                           pc + INSTRUCTION_LENGTH)
             o == ExecuteInstruction(systable, regs, memory, r, ipad)
         IN  /\ f.kind = "ok"
             /\ rt' = r
             /\ registers' = o.registers
             /\ memory' = o.memory
             /\ maze' = MazeAfter(systable, r, ipad, maze)
             /\ stream' = StreamAfter(systable, r, ipad, regs, stream)
             /\ called' = Dispatched(systable, r, ipad)
             /\ CASE o.raised = "none" -> UNCHANGED <<status, result>>
                  [] o.raised = "Stop" -> Return(FALSE, "none", o.code, steps + 1)
                  [] o.raised \in Uncaught -> Escape(o.raised, steps + 1)
                  [] OTHER -> Return(TRUE, o.raised, -1, steps + 1)
    /\ steps' = steps + 1
    /\ executed' = executed + 1
    /\ UNCHANGED <<program, max_steps, systable, runs, first, source, asmvars,
                   auxvars>>

Next ==
    \/ BeginRun
    \/ LimitExceeded
    \/ FetchFail
    \/ AdvanceOverflow
    \/ Execute

Spec == Init /\ [][Next]_vars

----------------------------------------------------------------------------
(* MiscVM.run_debug, driven to exhaustion on the MiscVM object a call of   *)
(* run has returned from, with the program and the budget of that call.    *)
(* result holds what the generator ended with: the text of its last yield  *)
(* as the error or exit code of a VMResult, or the exception that left it. *)

\* entry of run_debug: reset, steps = 0, a fresh Runtime
DebugBegin ==
    /\ status \in {"returned", "escaped"}
    /\ runs = 1
    /\ registers' = ResetRegisters
    /\ memory' = ResetMemory
    /\ steps' = 0
    /\ executed' = 0
    /\ rt' = NoRuntime
    /\ status' = "stepping"
    /\ result' = NoResult
    /\ runs' = runs + 1
    /\ first' = Observed
    /\ maze' = MazeReset
    /\ stream' = <<>>
    /\ called' = NoHandler
    /\ UNCHANGED <<program, max_steps, systable, source, asmvars, auxvars>>

\* one of the except clauses of run_debug yields and the generator ends
Exhausted(halted, error, code, n) ==
    /\ status' = "exhausted"
    /\ result' = VMResult(halted, error, code, n)

\* an exception no except clause of run_debug catches
Raised(exception, n) ==
    /\ status' = "raised"
    /\ result' = VMResult(TRUE, exception, -1, n)

\* run_debug with the except clause of run for Register.Error
DebugUncaughtAsRun == Uncaught

\* the exceptions run_debug does not catch: it has the except clauses of
\* run for Memory.Error, MiscVM.Error and MiscVM.Stop, and none for
\* Register.Error
DebugUncaught == Uncaught \cup {"Register is protected"}

DebugLimitExceeded ==
    /\ status = "stepping"
    /\ CheckRunon(steps, max_steps)
    /\ Exhausted(TRUE, "Runtime limit exceeded", -1, steps)
    /\ UNCHANGED <<program, max_steps, systable, registers, memory, steps,
                   executed, rt, runs, first, maze, source, stream, called,
                   asmvars, auxvars>>

DebugFetchFail ==
    /\ status = "stepping"
    /\ ~CheckRunon(steps, max_steps)
    /\ \E pad \in PadNibble :
         LET f == ReadInstruction(program, registers[RIP_REG], pad)
         IN  /\ f.kind # "ok"
             /\ IF f.kind \in DebugUncaught
                THEN Raised(f.kind, steps + 1)
                ELSE Exhausted(TRUE, f.kind, -1, steps + 1)
    /\ steps' = steps + 1
    /\ UNCHANGED <<program, max_steps, systable, registers, memory, executed,
                   rt, runs, first, maze, source, stream, called, asmvars,
                   auxvars>>

DebugAdvanceOverflow ==
    /\ status = "stepping"
    /\ ~CheckRunon(steps, max_steps)
    /\ \E pad \in PadNibble :
         ReadInstruction(program, registers[RIP_REG], pad).kind = "ok"
    /\ ~PcFits(registers[RIP_REG] + INSTRUCTION_LENGTH)
    /\ Raised("OverflowError", steps + 1)
    /\ steps' = steps + 1
    /\ UNCHANGED <<program, max_steps, systable, registers, memory, executed,
                   rt, runs, first, maze, source, stream, called, asmvars,
                   auxvars>>

\* one iteration of the loop of run_debug: fetch, advance the PC, _update_rt,
\* the yield before the instruction, _execute_instruction
DebugExecute ==
    /\ status = "stepping"
    /\ ~CheckRunon(steps, max_steps)
    /\ PcFits(registers[RIP_REG] + INSTRUCTION_LENGTH)
    /\ \E pad \in PadNibble, ipad \in PadNibble :
         LET pc == registers[RIP_REG]
             f == ReadInstruction(program, pc, pad)
             regs == SetPc(registers, pc + INSTRUCTION_LENGTH)
             r == UpdateRt(f.op, program[pc + 1], program[pc + 2],
                           pc + INSTRUCTION_LENGTH)
             o == ExecuteInstruction(systable, regs, memory, r, ipad)
         IN  /\ f.kind = "ok"
             /\ rt' = r
             /\ registers' = o.registers
             /\ memory' = o.memory
             /\ maze' = MazeAfter(systable, r, ipad, maze)
             /\ stream' = StreamAfter(systable, r, ipad, regs, stream)
             /\ called' = Dispatched(systable, r, ipad)
             /\ CASE o.raised = "none" -> UNCHANGED <<status, result>>
                  [] o.raised = "Stop" -> Exhausted(FALSE, "none", o.code, steps + 1)
                  [] o.raised \in DebugUncaught -> Raised(o.raised, steps + 1)
                  [] OTHER -> Exhausted(TRUE, o.raised, -1, steps + 1)
    /\ steps' = steps + 1
    /\ executed' = executed + 1
    /\ UNCHANGED <<program, max_steps, systable, runs, first, source, asmvars,
                   auxvars>>

NextDebug ==
    \/ BeginRun
    \/ LimitExceeded
    \/ FetchFail
    \/ AdvanceOverflow
    \/ Execute
    \/ DebugBegin
    \/ DebugLimitExceeded
    \/ DebugFetchFail
    \/ DebugAdvanceOverflow
    \/ DebugExecute

SpecDebug == Init /\ [][NextDebug]_vars

----------------------------------------------------------------------------
(* The handlers of a syscall table called directly on the Runtime of a     *)
(* run, as the dispatch of _execute_instruction calls them after the       *)
(* table lookup                                                            *)

InitCall ==
    /\ AuxIdle
    /\ program = <<>>
    /\ max_steps = MaxCalls
    /\ systable \in {"demo", "runner"}
    /\ source = <<>>
    /\ registers = ResetRegisters
    /\ memory = ResetMemory
    /\ steps = 0
    /\ executed = 0
    /\ rt = NoRuntime
    /\ status = "running"
    /\ result = NoResult
    /\ runs = 1
    /\ first = [status |-> "idle", result |-> NoResult,
                 registers |-> ResetRegisters, memory |-> ResetMemory,
                 maze |-> MazeReset]
    /\ maze = MazeReset
    /\ stream = <<>>
    /\ called = NoHandler
    /\ AsmIdle

\* rt = syscall(rt) for a handler of the table
CallHandler ==
    /\ status = "running"
    /\ steps < MaxCalls
    /\ \E id \in SystableIds(systable) :
         LET o == Syscall(systable, id, registers, memory)
         IN  /\ called' = id
             /\ registers' = o.registers
             /\ memory' = o.memory
             /\ maze' = IF systable = "runner" THEN MazeCalled(id, maze) ELSE maze
             /\ stream' = IF systable = "demo" /\ id = 1
                           THEN Append(stream, registers[0]) ELSE stream
             /\ CASE o.raised = "none" -> UNCHANGED <<status, result>>
                  [] o.raised = "Stop" -> Return(FALSE, "none", o.code, steps + 1)
                  [] o.raised \in Uncaught -> Escape(o.raised, steps + 1)
                  [] OTHER -> Return(TRUE, o.raised, -1, steps + 1)
    /\ steps' = steps + 1
    /\ UNCHANGED <<program, max_steps, systable, executed, rt, runs, first,
                   source, asmvars, auxvars>>

NextCall == CallHandler

SpecCall == InitCall /\ [][NextCall]_vars

----------------------------------------------------------------------------
(* The assembler, the interpreter's decoder and the disassembler applied   *)
(* to a source                                                             *)

\* the code lines of a source that assembles
CodeLines(lines) == Pass1(Pass1Start, lines, 1).code_lines

\* the interpreter's decoding of the n-th instruction after the data section
DecodeAt(bytes, at, pad) ==
    LET f == ReadInstruction(bytes, at, pad)
    IN  IF f.kind = "ok"
        THEN UpdateRt(f.op, bytes[at + 1], bytes[at + 2], at + INSTRUCTION_LENGTH)
        ELSE NoRuntime

InitAsm ==
    /\ AuxIdle
    /\ program = <<>>
    /\ max_steps = 0
    /\ systable = "empty"
    /\ source = <<>>
    /\ VMIdle
    /\ asm_pc = "source"
    /\ asm_in \in Sources
    /\ asm_out = AsmError
    /\ decoded = <<>>
    /\ dis_out = DisError
    /\ re_out = AsmError
    /\ resolved = <<>>

DoAssemble ==
    /\ asm_pc = "source"
    /\ asm_out' = Assemble(asm_in)
    /\ resolved' = ResolvedOps(asm_in)
    /\ asm_pc' = "assembled"
    /\ UNCHANGED <<asm_in, decoded, dis_out, re_out, vmvars, auxvars>>

DoDecode ==
    /\ asm_pc = "assembled"
    /\ asm_out.ok
    /\ \E pad \in PadNibble :
         LET code == CodeLines(asm_in)
             base == Len(asm_out.bytes) - 2 * Len(code)
         IN  decoded' = [n \in 1 .. Len(code) |->
                            DecodeAt(asm_out.bytes, base + 2 * (n - 1), pad)]
    /\ asm_pc' = "decoded"
    /\ UNCHANGED <<asm_in, asm_out, dis_out, re_out, resolved, vmvars,
                   auxvars>>

DoDisassemble ==
    /\ asm_pc = "decoded"
    /\ dis_out' = Disassemble(asm_out.bytes, 0, <<>>)
    /\ asm_pc' = "disassembled"
    /\ UNCHANGED <<asm_in, asm_out, decoded, re_out, resolved, vmvars,
                   auxvars>>

\* assemble applied to the text disassemble returned; when disassemble raised
\* there is no text to assemble
DoReassemble ==
    /\ asm_pc = "disassembled"
    /\ re_out' = IF dis_out.ok THEN Assemble(dis_out.lines) ELSE AsmError
    /\ asm_pc' = "reassembled"
    /\ UNCHANGED <<asm_in, asm_out, decoded, dis_out, resolved, vmvars,
                   auxvars>>

NextAsm ==
    \/ DoAssemble
    \/ DoDecode
    \/ DoDisassemble
    \/ DoReassemble

SpecAsm == InitAsm /\ [][NextAsm]_vars

----------------------------------------------------------------------------
(* Maze: construction of a generated maze (maze_game.py), then the moves,  *)
(* resets and the grading an evaluation applies to it                      *)

MaxSide == 4
MaxMoves == 4

\* the interpreter variables a Maze operation does not touch
vmrest == <<program, max_steps, systable, registers, memory, steps, executed,
            rt, status, runs, first, source, stream, called>>

\* width and height after lines 22-23 of __init__
OddUp(n) == IF n % 2 = 0 THEN n + 1 ELSE n

\* inb of _carve_passages
Inb(y, x) == 0 <= y /\ y < height /\ 0 <= x /\ x < width

DIRS == {<<-2, 0>>, <<2, 0>>, <<0, -2>>, <<0, 2>>}

\* the odd indices random.randrange(1, n, 2) draws from
OddBelow(n) == {k \in 1 .. (n - 1) : k % 2 = 1}

\* the cells _random_open_cell draws from
OpenDraws == (1 .. (height - 2)) \X (1 .. (width - 2))

\* the border loops at the end of _carve_passages
SolidBorder(g) ==
    [c \in DOMAIN g |->
        IF c[1] = 0 \/ c[1] = height - 1 \/ c[2] = 0 \/ c[2] = width - 1
        THEN WALL ELSE g[c]]

\* Maze(width, height) entered: width and height are made odd
\* Maze(width = w, height = h) for w and h among sides, before _carve_passages
NewMaze(sides) ==
    /\ program = <<>>
    /\ max_steps = 0
    /\ systable = "runner"
    /\ source = <<>>
    /\ registers = ResetRegisters
    /\ memory = ResetMemory
    /\ steps = 0
    /\ executed = 0
    /\ rt = NoRuntime
    /\ status = "idle"
    /\ result = NoResult
    /\ runs = 0
    /\ first = [status |-> "idle", result |-> NoResult,
                 registers |-> ResetRegisters, memory |-> ResetMemory,
                 maze |-> NoPlayer]
    /\ maze = NoPlayer
    /\ stream = <<>>
    /\ called = NoHandler
    /\ AsmIdle
    /\ GaIdle
    /\ PoolIdle
    /\ \E w \in sides, h \in sides :
         /\ width = OddUp(w)
         /\ height = OddUp(h)
    /\ grid = <<>>
    /\ start_position = NoCell
    /\ finish = NoCell
    /\ stack = <<>>
    /\ maze_pc = "init"
    /\ maze_op = "new"
    /\ maze_before = NoPlayer
    /\ score = NoScore

InitMaze == NewMaze(2 .. MaxSide)

MaxCarveSide == 6

\* the sides from 5 on: mazes of 5 x 5, 5 x 7, 7 x 5 and 7 x 7 cells
InitCarve == NewMaze(5 .. MaxCarveSide)

\* _carve_passages up to the loop: a grid of walls with one odd cell opened
CarveStart ==
    /\ maze_pc = "init"
    /\ \E start_y \in OddBelow(height), start_x \in OddBelow(width) :
         /\ grid' = [c \in Cells(height, width) |->
                        IF c = <<start_y, start_x>> THEN FLOOR ELSE WALL]
         /\ stack' = <<<<start_y, start_x>>>>
    /\ maze_pc' = "carve"
    /\ UNCHANGED <<width, height, start_position, finish, maze_op, maze_before,
                   score, vmvars, asmvars, gavars, poolvars>>

\* an iteration that opens the target cell and leaves the wall between
CarveStepNoWall ==
    /\ maze_pc = "carve"
    /\ stack # <<>>
    /\ LET y == stack[Len(stack)][1]
           x == stack[Len(stack)][2]
           open == {d \in DIRS : /\ Inb(y + d[1], x + d[2])
                                 /\ grid[<<y + d[1], x + d[2]>>] = WALL}
       IN  IF open = {}
           THEN /\ stack' = SubSeq(stack, 1, Len(stack) - 1)
                /\ grid' = grid
           ELSE \E d \in open :
                  /\ grid' = [grid EXCEPT ![<<y + d[1], x + d[2]>>] = FLOOR]
                  /\ stack' = Append(stack, <<y + d[1], x + d[2]>>)
    /\ UNCHANGED <<width, height, start_position, finish, maze_pc, maze_op,
                   maze_before, score, vmvars, asmvars, gavars, poolvars>>

\* one iteration of the while loop of _carve_passages: after the shuffle the
\* first direction whose target is in bounds and still WALL is carved, which
\* can be any such direction; with none the cell is popped
CarveStep ==
    /\ maze_pc = "carve"
    /\ stack # <<>>
    /\ LET y == stack[Len(stack)][1]
           x == stack[Len(stack)][2]
           open == {d \in DIRS : /\ Inb(y + d[1], x + d[2])
                                 /\ grid[<<y + d[1], x + d[2]>>] = WALL}
       IN  IF open = {}
           THEN /\ stack' = SubSeq(stack, 1, Len(stack) - 1)
                /\ grid' = grid
           ELSE \E d \in open :
                  /\ grid' = [grid EXCEPT
                                ![<<y + (d[1] \div 2), x + (d[2] \div 2)>>] = FLOOR,
                                ![<<y + d[1], x + d[2]>>] = FLOOR]
                  /\ stack' = Append(stack, <<y + d[1], x + d[2]>>)
    /\ UNCHANGED <<width, height, start_position, finish, maze_pc, maze_op,
                   maze_before, score, vmvars, asmvars, gavars, poolvars>>

\* the stack is empty: the border is made solid and the grid returned
CarveBorder ==
    /\ maze_pc = "carve"
    /\ stack = <<>>
    /\ grid' = SolidBorder(grid)
    /\ maze_pc' = "start"
    /\ UNCHANGED <<width, height, start_position, finish, stack, maze_op,
                   maze_before, score, vmvars, asmvars, gavars, poolvars>>

\* one draw of _random_open_cell for start_position; a WALL cell is drawn
\* again
DrawStart ==
    /\ maze_pc = "start"
    /\ \E c \in OpenDraws :
         IF grid[c] = FLOOR
         THEN /\ start_position' = c
              /\ maze_pc' = "finish"
         ELSE UNCHANGED <<start_position, maze_pc>>
    /\ UNCHANGED <<width, height, grid, finish, stack, maze_op, maze_before,
                   score, vmvars, asmvars, gavars, poolvars>>

\* one draw of _random_open_cell for the finish; the while loop of __init__
\* draws again while the finish equals start_position, then reset is called
DrawFinish ==
    /\ maze_pc = "finish"
    /\ \E c \in OpenDraws :
         IF grid[c] = FLOOR
         THEN /\ finish' = c
              /\ IF c # start_position
                 THEN /\ maze' = MazeReset
                      /\ maze_pc' = "ready"
                 ELSE UNCHANGED <<maze, maze_pc>>
         ELSE UNCHANGED <<finish, maze, maze_pc>>
    /\ UNCHANGED <<width, height, grid, start_position, stack, maze_op,
                   maze_before, score, result, vmrest, asmvars, gavars, poolvars>>

NextNewMaze ==
    \/ CarveStart
    \/ CarveStep
    \/ CarveBorder
    \/ DrawStart
    \/ DrawFinish

\* random.randrange, random.shuffle and the retry loops draw every outcome
\* of positive probability sooner or later
\* the construction of the mazes of 5 x 5 to 7 x 7 cells
SpecCarve == InitCarve /\ [][NextNewMaze]_vars

SpecNewMaze ==
    /\ InitMaze
    /\ [][NextNewMaze]_vars
    /\ WF_vars(CarveStart)
    /\ WF_vars(CarveStep)
    /\ WF_vars(CarveBorder)
    /\ WF_vars(DrawStart)
    /\ WF_vars(DrawFinish)

Dirs == {"w", "a", "s", "d"}

\* maze.move(dir), as a move handler of the evaluation's run calls it
Move ==
    /\ maze_pc = "ready"
    /\ maze_op # "grade"
    /\ maze.total_steps < MaxMoves
    /\ \E dir \in Dirs :
         /\ maze' = MazeMove(maze, dir)
         /\ maze_op' = dir
    /\ maze_before' = maze
    /\ UNCHANGED <<width, height, grid, start_position, finish, stack, maze_pc,
                   score, result, vmrest, asmvars, gavars, poolvars>>

\* the kept statistics: Maze.reset leaving valid_moves as it is
ResetKeepsMoves ==
    /\ maze_pc = "ready"
    /\ maze' = [MazeReset EXCEPT !.valid_moves = maze.valid_moves]
    /\ maze_op' = "reset"
    /\ maze_before' = maze
    /\ score' = NoScore
    /\ result' = NoResult
    /\ UNCHANGED <<width, height, grid, start_position, finish, stack, maze_pc,
                   vmrest, asmvars, gavars, poolvars>>

\* current_maze.reset() of process_individual: the next evaluation begins
Reset ==
    /\ maze_pc = "ready"
    /\ maze' = MazeReset
    /\ maze_op' = "reset"
    /\ maze_before' = maze
    /\ score' = NoScore
    /\ result' = NoResult
    /\ UNCHANGED <<width, height, grid, start_position, finish, stack, maze_pc,
                   vmrest, asmvars, gavars, poolvars>>

\* score = grade_maze_performance(r, current_maze) for the result r of the
\* evaluation's run
Grade ==
    /\ maze_pc = "ready"
    /\ maze_op # "grade"
    /\ \E halted \in BOOLEAN :
         /\ result' = VMResult(halted, IF halted THEN "Unknown syscall" ELSE "none",
                               -1, maze.total_steps)
         /\ score' = GradeMazePerformance(result', maze)
    /\ maze_op' = "grade"
    /\ maze_before' = maze
    /\ UNCHANGED <<width, height, grid, start_position, finish, stack, maze_pc,
                   maze, vmrest, asmvars, gavars, poolvars>>

NextMaze ==
    \/ NextNewMaze
    \/ Move
    \/ Reset
    \/ Grade

SpecMaze == InitMaze /\ [][NextMaze]_vars

----------------------------------------------------------------------------
(* GeneticAlgo.run on a population, with test_func returning one scored    *)
(* program per individual                                                  *)

\* the scores test_func can give an individual
Scores == {0, 1}

\* the k-th individual of the initial population: one or two words
Individual(k) == IF k % 2 = 1 THEN <<k, 255>> ELSE <<k, 0, 255, k>>

\* rates in percent; a mutation rate strictly between 0 and 1 lets
\* random.random() < rate come out either way at every bit
MutationRates == {0, 50}
CrossoverRates == {50, 100}

\* the state of the VM and of the maze while the algorithm or the pool runs
OthersIdle ==
    /\ MazeIdle
    /\ program = <<>>
    /\ max_steps = 0
    /\ systable = "runner"
    /\ source = <<>>
    /\ VMIdle
    /\ AsmIdle

mutvars == <<program_bytes, mutated_bits, mut_i, mut_iter, mut_pc, mut_event,
            mut_out>>

InitGA ==
    /\ OthersIdle
    /\ PoolIdle
    /\ MutIdle
    /\ \E n \in 1 .. MaxPop : population = [k \in 1 .. n |-> Individual(k)]
    /\ scored_population = <<>>
    /\ current_generation = 0
    /\ total_generations \in 0 .. MaxGenerations
    /\ hooks \in {"default", "runner"}
    /\ mutation_rate \in MutationRates
    /\ crossover_rate \in CrossoverRates
    /\ ga_pc = "start"
    /\ ga_error = "none"
    /\ ga_result = <<>>
    /\ calls = NoCalls
    /\ CrossIdle
    /\ SelectIdle

\* run up to the loop, called without an exit predicate
RunStart ==
    /\ ga_pc = "start"
    /\ IF total_generations = 0
       THEN /\ ga_pc' = "raised"
            /\ ga_error' = "ValueError"
       ELSE /\ ga_pc' = "test"
            /\ ga_error' = ga_error
    /\ UNCHANGED <<population, scored_population, current_generation,
                   total_generations, hooks, mutation_rate, crossover_rate,
                   ga_result, calls, mut_events, mutvars, crossvars, selvars,
                   mazevars, poolvars, vmvars, asmvars>>

\* the first half of the loop body: hook_next_gen, test_func, hook_log_scores
\* and the exit test; the default hook_finished takes one argument and is
\* called with none
Evaluate ==
    /\ ga_pc = "test"
    /\ \E sc \in [DOMAIN population -> Scores] :
         scored_population' =
             [k \in DOMAIN population |->
                 [score |-> sc[k], program_bytes |-> population[k]]]
    /\ IF current_generation + 1 >= total_generations
       THEN IF hooks = "default"
            THEN /\ ga_pc' = "raised"
                 /\ ga_error' = "TypeError"
                 /\ ga_result' = ga_result
                 /\ calls' = [calls EXCEPT !.test = @ + 1]
            ELSE /\ ga_pc' = "returned"
                 /\ ga_error' = ga_error
                 /\ ga_result' = scored_population'
                 /\ calls' = [calls EXCEPT !.test = @ + 1, !.finish = @ + 1]
       ELSE /\ ga_pc' = "select"
            /\ ga_error' = ga_error
            /\ ga_result' = ga_result
            /\ calls' = [calls EXCEPT !.test = @ + 1]
    /\ UNCHANGED <<population, current_generation, total_generations, hooks,
                   mutation_rate, crossover_rate, mut_events, mutvars,
                   crossvars, selvars, mazevars, poolvars, vmvars, asmvars>>

\* the second half of the loop body: hook_selection(mean(scores)), _select,
\* hook_reproduction and the children; mean raises on an empty list, and the
\* default hook_reproduction takes one argument and is called with none
SelectReproduce ==
    /\ ga_pc = "select"
    /\ IF Len(scored_population) = 0
       THEN /\ ga_pc' = "raised"
            /\ ga_error' = "StatisticsError"
            /\ UNCHANGED <<population, current_generation, calls, mut_events>>
       ELSE \E survivors \in Select(scored_population) :
              IF hooks = "default"
              THEN /\ ga_pc' = "raised"
                   /\ ga_error' = "TypeError"
                   /\ calls' = [calls EXCEPT !.select = @ + 1]
                   /\ UNCHANGED <<population, current_generation, mut_events>>
              ELSE \E o \in Reproduce(survivors, 1, mutation_rate,
                                      crossover_rate, mut_events) :
                     /\ population' = o.population
                     /\ mut_events' = o.events
                     /\ calls' = [calls EXCEPT !.select = @ + 1,
                                               !.reproduce = @ + 1]
                     /\ current_generation' = current_generation + 1
                     /\ ga_pc' = "test"
                     /\ ga_error' = ga_error
    /\ UNCHANGED <<scored_population, total_generations, hooks, mutation_rate,
                   crossover_rate, ga_result, mutvars, crossvars, selvars,
                   mazevars, poolvars, vmvars, asmvars>>

NextGA ==
    \/ RunStart
    \/ Evaluate
    \/ SelectReproduce

SpecGA == InitGA /\ [][NextGA]_vars

----------------------------------------------------------------------------
(* One call of GeneticAlgo._mutate, bit by bit                             *)

MutPrograms == {<<165>>, <<255, 0>>}

runvars == <<population, scored_population, current_generation,
             total_generations, hooks, crossover_rate, ga_pc, ga_error,
             ga_result, calls, crossvars, selvars>>

InitMutate ==
    /\ OthersIdle
    /\ PoolIdle
    /\ RunIdle
    /\ mutation_rate \in MutationRates
    /\ program_bytes \in MutPrograms
    /\ mutated_bits = <<>>
    /\ mut_i = 0
    /\ mut_iter = 0
    /\ mut_pc = "enter"
    /\ mut_event = NoEvent
    /\ mut_events = 0
    /\ mut_out = <<>>

\* _mutate up to the loop
MutateEnter ==
    /\ mut_pc = "enter"
    /\ IF mutation_rate = 0
       THEN /\ mut_out' = program_bytes
            /\ mut_pc' = "done"
            /\ mutated_bits' = mutated_bits
       ELSE /\ mutated_bits' = BitsOfBytes(program_bytes)
            /\ mut_pc' = "loop"
            /\ mut_out' = mut_out
    /\ UNCHANGED <<program_bytes, mut_i, mut_iter, mut_event, mut_events,
                   mutation_rate, runvars, mazevars, poolvars, vmvars, asmvars>>

\* an iteration in which random.random() < rate is false
MutateSkip ==
    /\ mut_pc = "loop"
    /\ mut_i < Len(mutated_bits)
    /\ mut_i' = mut_i + 1
    /\ mut_iter' = mut_iter + 1
    /\ UNCHANGED <<program_bytes, mutated_bits, mut_pc, mut_event, mut_events,
                   mut_out, mutation_rate, runvars, mazevars, poolvars,
                   vmvars, asmvars>>

\* an iteration with a mutation event
MutateBit ==
    /\ mut_pc = "loop"
    /\ mut_i < Len(mutated_bits)
    /\ mut_events < MaxEvents
    /\ \E t \in 0 .. 2, b \in 0 .. 1 :
         LET e == MutateEvent(mutated_bits, mut_i, t, b)
         IN  /\ mutated_bits' = e.bits
             /\ mut_i' = e.i
             /\ mut_event' = [type |-> t, at |-> mut_i,
                              bit |-> IF t = 1 THEN b ELSE -1]
    /\ mut_events' = mut_events + 1
    /\ mut_iter' = mut_iter + 1
    /\ UNCHANGED <<program_bytes, mut_pc, mut_out, mutation_rate, runvars,
                   mazevars, poolvars, vmvars, asmvars>>

\* the loop has ended: return mutated_bits.tobytes()
MutateReturn ==
    /\ mut_pc = "loop"
    /\ mut_i >= Len(mutated_bits)
    /\ mut_out' = BytesOfBits(mutated_bits)
    /\ mut_pc' = "done"
    /\ UNCHANGED <<program_bytes, mutated_bits, mut_i, mut_iter, mut_event,
                   mut_events, mutation_rate, runvars, mazevars, poolvars, vmvars,
                   asmvars>>

NextMutate ==
    \/ MutateEnter
    \/ MutateSkip
    \/ MutateBit
    \/ MutateReturn

SpecMutate == InitMutate /\ [][NextMutate]_vars

\* _mutate is sequential code: the call keeps taking its next step
SpecMutateFair == SpecMutate /\ WF_vars(NextMutate)

----------------------------------------------------------------------------
(* One call of GeneticAlgo._crossover                                      *)

MaxBytes == 5

\* a parent of n bytes, all different and different from the other parent's
Parent(n, base) == [k \in 1 .. n |-> base + k]

InitCross ==
    /\ OthersIdle
    /\ PoolIdle
    /\ MutIdle
    /\ mutation_rate = 0
    /\ population = <<>>
    /\ scored_population = <<>>
    /\ current_generation = 0
    /\ total_generations = 0
    /\ hooks = "runner"
    /\ ga_pc = "idle"
    /\ ga_error = "none"
    /\ ga_result = <<>>
    /\ calls = NoCalls
    /\ SelectIdle
    /\ crossover_rate \in CrossoverRates
    /\ \E n \in 0 .. MaxBytes : p1_bytes = Parent(n, 0)
    /\ \E n \in 0 .. MaxBytes : p2_bytes = Parent(n, 10)
    /\ crossover = -1
    /\ children = <<>>
    /\ cross_pc = "enter"

crossrest == <<population, scored_population, current_generation,
               total_generations, hooks, mutation_rate, crossover_rate, ga_pc,
               ga_error, ga_result, calls, mut_events, mutvars, selvars,
               mazevars, poolvars, vmvars, asmvars>>

\* random.random() > self.crossover_rate: the parents are returned
CrossoverKeep ==
    /\ cross_pc = "enter"
    /\ crossover_rate < 100
    /\ children' = <<p1_bytes, p2_bytes>>
    /\ cross_pc' = "done"
    /\ UNCHANGED <<p1_bytes, p2_bytes, crossover, crossrest>>

\* the cut is drawn and the tails are swapped
CrossoverCut ==
    /\ cross_pc = "enter"
    /\ \E c \in CrossoverCuts(p1_bytes, p2_bytes) :
         /\ crossover' = c
         /\ children' = CrossoverAt(p1_bytes, p2_bytes, c)
    /\ cross_pc' = "done"
    /\ UNCHANGED <<p1_bytes, p2_bytes, crossrest>>

NextCross ==
    \/ CrossoverKeep
    \/ CrossoverCut

SpecCross == InitCross /\ [][NextCross]_vars

----------------------------------------------------------------------------
(* One call of GeneticAlgo._select                                         *)

\* the scores of a generation: run calls _select after mean(scores), on a
\* population that is not empty
SelectScores == {-1, 0, 2}

InitSelect ==
    /\ OthersIdle
    /\ PoolIdle
    /\ MutIdle
    /\ CrossIdle
    /\ mutation_rate = 0
    /\ crossover_rate = 0
    /\ population = <<>>
    /\ \E n \in 1 .. MaxPop : \E sc \in [1 .. n -> SelectScores] :
         scored_population =
             [k \in 1 .. n |-> [score |-> sc[k], program_bytes |-> Individual(k)]]
    /\ current_generation = 0
    /\ total_generations = 0
    /\ hooks = "runner"
    /\ ga_pc = "idle"
    /\ ga_error = "none"
    /\ ga_result = <<>>
    /\ calls = NoCalls
    /\ normalized_scores = <<>>
    /\ chosen = <<>>
    /\ selected = <<>>
    /\ select_pc = "enter"

selectrest == <<population, scored_population, current_generation,
                total_generations, hooks, mutation_rate, crossover_rate,
                ga_pc, ga_error, ga_result, calls, mut_events, mutvars,
                crossvars, mazevars, poolvars, vmvars, asmvars>>

\* normalized_scores = _normalize_data([s.score for s in scored_population])
SelectNormalize ==
    /\ select_pc = "enter"
    /\ normalized_scores' = Weights(scored_population)
    /\ select_pc' = "draw"
    /\ UNCHANGED <<chosen, selected, selectrest>>

\* the two calls of random.choices and the returned list of pairs
SelectDraw ==
    /\ select_pc = "draw"
    /\ \E p1 \in Choices(normalized_scores, Len(scored_population) \div 2),
          p2 \in Choices(normalized_scores, Len(scored_population) \div 2) :
         /\ chosen' = [n \in DOMAIN p1 |-> <<p1[n], p2[n]>>]
         /\ selected' = PairsOf(scored_population, p1, p2)
    /\ select_pc' = "done"
    /\ UNCHANGED <<normalized_scores, selectrest>>

NextSelect ==
    \/ SelectNormalize
    \/ SelectDraw

SpecSelect == InitSelect /\ [][NextSelect]_vars

----------------------------------------------------------------------------
(* The evaluations of one generation on the worker pool (runner.py, test   *)
(* and process_individual).  The run of a program is represented by the    *)
(* handlers it invokes on the maze it was given.                           *)

MaxPlan == 2

Tasks == {1, 2}

\* the move handlers a run invokes: up, down, right
PlanIds == {16, 17, 19}
Plans == UNION {[1 .. n -> PlanIds] : n \in 0 .. MaxPlan}

\* every task working on the one Maze object of the parent
SharedObject(t) == 1

\* the Maze object process_individual of task t works on: each task tuple is
\* pickled to a worker process, which unpickles its own copy of the test set
MazeObject(t) == t

InitPool ==
    /\ OthersIdle
    /\ GaIdle
    /\ task_plan \in [Tasks -> Plans]
    /\ task_halt \in [Tasks -> BOOLEAN]
    /\ task_pc = [t \in Tasks |-> "queued"]
    /\ task_at = [t \in Tasks |-> 0]
    /\ task_score = [t \in Tasks |-> NoScore]
    /\ objects = [o \in Tasks |-> maze]
    /\ results = <<>>
    /\ pool_pc = "running"

\* process_individual up to the call of run_one: the one maze of the test set
\* is drawn and reset
TaskBegin(t) ==
    /\ pool_pc = "running"
    /\ task_pc[t] = "queued"
    /\ objects' = [objects EXCEPT ![MazeObject(t)] = MazeReset]
    /\ task_pc' = [task_pc EXCEPT ![t] = "running"]
    /\ UNCHANGED <<task_plan, task_halt, task_at, task_score, results, pool_pc,
                   mazevars, gavars, vmvars, asmvars>>

\* the handler of the runner table with this id raises an exception that
\* run does not catch
HandlerRaises(id) ==
    RunnerSyscall(id, ResetRegisters, ResetMemory).raised \in Uncaught

\* the run of run_one invokes its next handler, which returns
TaskCall(t) ==
    /\ pool_pc = "running"
    /\ task_pc[t] = "running"
    /\ task_at[t] < Len(task_plan[t])
    /\ ~HandlerRaises(task_plan[t][task_at[t] + 1])
    /\ objects' = [objects EXCEPT ![MazeObject(t)] =
                       MazeCalled(task_plan[t][task_at[t] + 1], @)]
    /\ task_at' = [task_at EXCEPT ![t] = @ + 1]
    /\ UNCHANGED <<task_plan, task_halt, task_pc, task_score, results, pool_pc,
                   mazevars, gavars, vmvars, asmvars>>

\* run_one has returned: the maze is graded and the ScoredProgram is sent
\* to the parent
TaskGrade(t) ==
    /\ pool_pc = "running"
    /\ task_pc[t] = "running"
    /\ task_at[t] = Len(task_plan[t])
    /\ task_score' =
          [task_score EXCEPT ![t] =
              GradeMazePerformance(
                  VMResult(task_halt[t], "none", -1, task_at[t]),
                  objects[MazeObject(t)])]
    /\ task_pc' = [task_pc EXCEPT ![t] = "graded"]
    /\ results' = Append(results, [program_bytes |-> t, score |-> task_score'[t]])
    /\ UNCHANGED <<objects, task_plan, task_halt, task_at, pool_pc, mazevars,
                   gavars, vmvars, asmvars>>

NextPool ==
    \E t \in Tasks :
        \/ TaskBegin(t)
        \/ TaskCall(t)
        \/ TaskGrade(t)

SpecPool == InitPool /\ [][NextPool]_vars

----------------------------------------------------------------------------
(* runner.test: the pool of SpecPool, with programs whose run reaches the  *)
(* EXIT handler of the runner table, and the parent collecting the results *)

\* the handlers a run invokes: the moves, and EXIT (id 0)
TestPlanIds == PlanIds \cup {0}
TestPlans == UNION {[1 .. n -> TestPlanIds] : n \in 0 .. MaxPlan}

InitTest ==
    /\ OthersIdle
    /\ GaIdle
    /\ task_plan \in [Tasks -> TestPlans]
    /\ task_halt = [t \in Tasks |-> FALSE]
    /\ task_pc = [t \in Tasks |-> "queued"]
    /\ task_at = [t \in Tasks |-> 0]
    /\ task_score = [t \in Tasks |-> NoScore]
    /\ objects = [o \in Tasks |-> maze]
    /\ results = <<>>
    /\ pool_pc = "running"

\* the run of run_one invokes a handler that raises: the exception leaves
\* run, run_one and process_individual, and the worker sends it to the
\* parent in place of a ScoredProgram
TaskRaise(t) ==
    /\ pool_pc = "running"
    /\ task_pc[t] = "running"
    /\ task_at[t] < Len(task_plan[t])
    /\ HandlerRaises(task_plan[t][task_at[t] + 1])
    /\ task_pc' = [task_pc EXCEPT ![t] = "raised"]
    /\ task_at' = [task_at EXCEPT ![t] = @ + 1]
    /\ UNCHANGED <<objects, task_plan, task_halt, task_score, results, pool_pc,
                   mazevars, gavars, vmvars, asmvars>>

\* list(pool.imap_unordered(...)) has received every ScoredProgram: test
\* returns the list
TestReturn ==
    /\ pool_pc = "running"
    /\ \A t \in Tasks : task_pc[t] = "graded"
    /\ pool_pc' = "returned"
    /\ UNCHANGED <<objects, task_plan, task_halt, task_pc, task_at, task_score,
                   results, mazevars, gavars, vmvars, asmvars>>

\* the iterator of imap_unordered comes to the exception of a task and
\* raises it in the parent: the with block terminates the pool and test
\* returns nothing
TestRaise ==
    /\ pool_pc = "running"
    /\ \E t \in Tasks : task_pc[t] = "raised"
    /\ pool_pc' = "raised"
    /\ UNCHANGED <<objects, task_plan, task_halt, task_pc, task_at, task_score,
                   results, mazevars, gavars, vmvars, asmvars>>

NextTest ==
    \/ \E t \in Tasks :
          \/ TaskBegin(t)
          \/ TaskCall(t)
          \/ TaskGrade(t)
          \/ TaskRaise(t)
    \/ TestReturn
    \/ TestRaise

SpecTest == InitTest /\ [][NextTest]_vars

----------------------------------------------------------------------------
(* Properties of MiscVM.run *)

Ended == status \in {"returned", "escaped"}

\* an instruction was fetched, decoded and handed to _execute_instruction
\* in this step; rt' holds its operands, registers and memory the state
\* before its fetch
Executing == executed' = executed + 1

\* register k as the executing instruction reads it: the fetch has already
\* advanced the PC
OperandReg(k) ==
    IF k = RIP_REG THEN registers[RIP_REG] + INSTRUCTION_LENGTH ELSE registers[k]

\* the registers after the fetch advance and nothing else
AdvancedRegisters == SetPc(registers, registers[RIP_REG] + INSTRUCTION_LENGTH)

\* C1: run never executes more than max_steps instructions, and a program
\* that loops forever is halted with "Runtime limit exceeded" after exactly
\* max_steps instructions, with result.steps = max_steps.
C1_StepBudget ==
    /\ executed <= max_steps
    /\ steps <= max_steps
    /\ (status = "returned" /\ result.error = "Runtime limit exceeded")
          => (result.halted /\ result.steps = max_steps /\ executed = max_steps)
    /\ (Ended /\ program \in {LoopProgram, InsI(OP_NOP, 0) \o LoopProgram})
          => (status = "returned" /\ result.error = "Runtime limit exceeded")

C1_Witness ==
    /\ program = LoopProgram
    /\ max_steps = MaxBudget
    /\ status = "returned"
    /\ result.error = "Runtime limit exceeded"
    /\ executed = MaxBudget

\* C2: for every program and every finite step budget run returns a result
\* record; no exception escapes run (stated for the syscall tables whose
\* handlers only return or raise Stop).
C2_NoEscape == systable \in {"demo", "empty"} => status # "escaped"

\* the instructions that the instruction set documents as writing r[d]
RegisterWriters ==
    {OP_MOV_REG_IMM, OP_MOV_REG_REG_SHR, OP_MOV_REG_REG_SHL, OP_MOV_REG_REG_ADD,
     OP_LD_REG_MEM, OP_ADD, OP_SUB, OP_AND, OP_OR, OP_XOR, OP_NOT}

\* C3: an instruction that writes its result to register d, executed with
\* d = 15, halts the run with "Register is protected" and leaves r15, the
\* other registers and memory unchanged; and within a run r15 changes only by
\* the fetch advance by 2 or by JMP or JZ (the data-preload loop of run is
\* never entered: no opcode byte _read_instruction builds equals 0xFF).
C3_ProtectedPc ==
    [][ /\ (Executing /\ rt'.op \in RegisterWriters /\ rt'.d_i = RIP_REG)
             => /\ status' = "returned"
                /\ result'.halted
                /\ result'.error = "Register is protected"
                /\ memory' = memory
                /\ registers' = AdvancedRegisters
        /\ (status = "running" /\ registers'[RIP_REG] # registers[RIP_REG])
             => /\ Executing
                /\ \/ registers'[RIP_REG] = registers[RIP_REG] + INSTRUCTION_LENGTH
                   \/ rt'.op \in {OP_JMP, OP_JZ}
      ]_vars

\* C4: every later run of the same program with the same step budget against
\* the same maze, on the MiscVM object of the first run, ends with the result
\* record, registers, memory and maze statistics of the first run.
C4_Deterministic == (runs >= 2 /\ Ended) => Observed = first

C4_Witness ==
    /\ runs = 2
    /\ status = "returned"
    /\ ~result.halted
    /\ result.steps = MaxBudget
    /\ \E a \in 0 .. (MemSize - 1) : memory[a] # 0
    /\ \E r \in 1 .. 3 : registers[r] # 0

\* the memory a list of (addr, val) pairs describes, later pairs winning
RECURSIVE PreloadedMemory(_, _, _)
PreloadedMemory(pairs, n, mem) ==
    IF n > Len(pairs) THEN mem
    ELSE PreloadedMemory(pairs, n + 1, [mem EXCEPT ![pairs[n][1]] = pairs[n][2]])

SourcePairs == Pass1(Pass1Start, source, 1).data_pairs

\* C5: for a .data section of byte directives, when the first .text
\* instruction has executed every pair's value is in memory and that
\* instruction was fetched right after the preload block; the program
\* byte 5, V; MOV_REG_IMM r1, 5; LD_REG_MEM r0, r1, 0; SYSCALL 0 exits with V.
C5_DataPreload ==
    /\ (source \in DataSources /\ executed = 1)
          => /\ rt.op = OP_MOV_REG_IMM
             /\ rt.pc = Len(DataSection(SourcePairs)) + INSTRUCTION_LENGTH
             /\ memory = PreloadedMemory(SourcePairs, 1, ResetMemory)
    /\ (source \in DataSources /\ Ended)
          => /\ status = "returned"
             /\ ~result.halted
             /\ result.exit_code = PreloadedMemory(SourcePairs, 1, ResetMemory)[5]

\* the operands of a source instruction
SourceOperand(ln, n) == ParseOperand(ln.args[n], NoLabels)

\* C6: the two bytes the assembler emits for an instruction are decoded by
\* the interpreter's fetch to the same opcode, the same register indices and
\* the same immediate.
C6_EncodeDecode ==
    asm_pc = "decoded" =>
        \A n \in 1 .. Len(decoded) :
            LET ln == CodeLines(asm_in)[n]
                op == MnemonicOp(ln.head)
                dec == decoded[n]
            IN  /\ dec.op = op
                /\ CASE OpArg(op) = "I" -> dec.i = SourceOperand(ln, 1) % 4096
                     [] OpArg(op) = "RI" ->
                          /\ dec.d_i = SourceOperand(ln, 1)
                          /\ dec.i = SourceOperand(ln, 2) % 256
                     [] OpArg(op) = "RRI" ->
                          /\ dec.d_i = SourceOperand(ln, 1)
                          /\ dec.s_i = SourceOperand(ln, 2)
                          /\ dec.i = SourceOperand(ln, 3) % 16

\* C7: for a well-formed source S, assembling the text disassemble returns
\* for assemble(S) yields exactly the bytes assemble(S).
C7_RoundTrip ==
    (asm_pc = "reassembled" /\ asm_out.ok)
        => (dis_out.ok /\ re_out.ok /\ re_out.bytes = asm_out.bytes)

Saturate127(x) == ToByteSigned(Min(127, Max(-127, x)))

\* C8: with d # 15, ADD leaves r[d] = min(127, max(-127, a + b + i)) and SUB
\* leaves r[d] = min(127, max(-127, a - b + i)) as a two's-complement byte,
\* for a = r[d], b = r[s] read as signed bytes and the signed imm4 i.
C8_SaturatingAddSub ==
    [][ (Executing /\ rt'.op \in {OP_ADD, OP_SUB} /\ rt'.d_i # RIP_REG)
          => LET a == Signed(OperandReg(rt'.d_i), 8)
                 b == Signed(OperandReg(rt'.s_i), 8)
                 i == Signed(rt'.i, 4)
             IN  registers'[rt'.d_i] =
                    IF rt'.op = OP_ADD THEN Saturate127(a + b + i)
                    ELSE Saturate127(a - b + i)
      ]_vars

InMemory(addr) == addr >= 0 /\ addr < MemSize

\* C9: ST_MEM_REG d, s, imm with r[d] + imm = addr in memory sets
\* mem[addr] = r[s] and changes no register; LD_REG_MEM d, s, imm with
\* r[s] + imm = addr in memory sets r[d] = mem[addr] and changes no memory
\* cell, so a load after a store of v to the same address yields v.
C9_StoreLoad ==
    [][ /\ (Executing /\ rt'.op = OP_ST_MEM_REG
              /\ InMemory(OperandReg(rt'.d_i) + Signed(rt'.i, 4)))
             => /\ memory' = [memory EXCEPT
                        ![OperandReg(rt'.d_i) + Signed(rt'.i, 4)] = OperandReg(rt'.s_i)]
                /\ registers' = AdvancedRegisters
        /\ (Executing /\ rt'.op = OP_LD_REG_MEM /\ rt'.d_i # RIP_REG
              /\ InMemory(OperandReg(rt'.s_i) + Signed(rt'.i, 4)))
             => /\ registers'[rt'.d_i] =
                        memory[OperandReg(rt'.s_i) + Signed(rt'.i, 4)]
                /\ memory' = memory
      ]_vars

\* the address the executing load or store computes
AccessAddr ==
    IF rt'.op = OP_LD_REG_MEM
    THEN OperandReg(rt'.d_i) + Signed(rt'.i, 4)
    ELSE OperandReg(rt'.s_i) + Signed(rt'.i, 4)

\* C10: a load or store whose computed address is outside 0..MemSize-1,
\* above or negative, halts the run with "Illegal memory access" and leaves
\* memory and all registers other than the PC unchanged.
C10_MemoryAccess ==
    [][ (Executing /\ rt'.op \in {OP_LD_REG_MEM, OP_ST_MEM_REG}
            /\ ~InMemory(AccessAddr))
          => /\ status' = "returned"
             /\ result'.halted
             /\ result'.error = "Illegal memory access"
             /\ memory' = memory
             /\ registers' = AdvancedRegisters
      ]_vars

\* C11: JMP d, imm8 sets the PC to min(255, r[d] + imm8), r[d] read as an
\* unsigned byte, and changes nothing else, so the next fetch is at that
\* address (test_jmp continues at its label).
C11_Jmp ==
    [][ (Executing /\ rt'.op = OP_JMP)
          => /\ registers' =
                   SetPc(registers, Min(255, OperandReg(rt'.d_i) + rt'.i))
             /\ memory' = memory
             /\ status' = "running"
      ]_vars

\* C12: JZ d, s, imm4 sets the PC to min(255, r[s] + imm4) when r[d] = 0;
\* when r[d] # 0 it changes nothing and the PC is the address of the JZ plus
\* 2, wherever the JZ is located.
C12_Jz ==
    [][ (Executing /\ rt'.op = OP_JZ)
          => /\ registers' =
                   IF OperandReg(rt'.d_i) = 0
                   THEN SetPc(registers, Min(255, OperandReg(rt'.s_i) + rt'.i))
                   ELSE AdvancedRegisters
             /\ memory' = memory
             /\ status' = "running"
      ]_vars

\* C13: the PC is even at every instruction fetch of every run.
C13_PcEven == status = "running" => registers[RIP_REG] % 2 = 0

\* C14: a SYSCALL whose 12-bit immediate is k, k an id of the systable,
\* invokes the handler registered under k; with the maze handlers registered,
\* k = 0x10, 0x11, 0x12, 0x13 call maze.move with 'w', 's', 'a', 'd'.
C14_SyscallDispatch ==
    [][ (Executing /\ rt'.op = OP_SYSCALL /\ rt'.i \in SystableIds(systable))
          => /\ called' = rt'.i
             /\ (systable = "runner" /\ rt'.i \in 16 .. 19)
                   => maze' = MazeMove(maze, MoveDir(rt'.i))
      ]_vars

\* C15: when the EXIT handler (id 0) is invoked, of the demo table or of
\* build_systable, the run ends with halted = false, no error and
\* exit_code = r[0].
C15_Exit ==
    [][ (Executing /\ called' = 0)
          => /\ status' = "returned"
             /\ result' = VMResult(FALSE, "none", registers[0] % 256, steps + 1)
      ]_vars

\* C16: when the PUTC handler (id 1) is invoked it appends chr(r[0]) to the
\* output stream, changes no register, no memory cell and not the PC, and
\* execution continues with the next instruction.
C16_Putc ==
    [][ (Executing /\ called' = 1)
          => /\ stream' = Append(stream, registers[0])
             /\ registers' = AdvancedRegisters
             /\ memory' = memory
             /\ status' = "running"
      ]_vars

\* C17: GET_PLAYER_POS (id 0x15) sets r[0], r[1] to the player's cell and
\* GET_FINISH_POS (id 0x14) to the finish cell; both return normally and
\* leave the other registers, memory and the maze unchanged.
C17_GetPos ==
    [][ (steps' = steps + 1 /\ called' \in {20, 21})
          => LET cell == IF called' = 21 THEN maze.player ELSE FinishCell
             IN  /\ registers' = [registers EXCEPT ![0] = cell[1], ![1] = cell[2]]
                 /\ memory' = memory
                 /\ maze' = maze
                 /\ status' = "running"
      ]_vars

\* C18: MOV_REG_REG_ADD d, s, imm4 with d # 15 leaves
\* r[d] = min(255, r[s] + imm4), r[s] unsigned, and changes nothing else.
C18_MovRegRegAdd ==
    [][ (Executing /\ rt'.op = OP_MOV_REG_REG_ADD /\ rt'.d_i # RIP_REG)
          => /\ registers' = [AdvancedRegisters EXCEPT
                   ![rt'.d_i] = Min(255, OperandReg(rt'.s_i) + rt'.i)]
             /\ memory' = memory
      ]_vars

\* bit k of the byte x
BitOf(x, k) == (x \div (2 ^ k)) % 2

\* r is the 8-bit bitwise combination of a and b by the truth table f
IsBitwise(f, r, a, b) ==
    r \in Byte /\ \A k \in 0 .. 7 : BitOf(r, k) = f[BitOf(a, k)][BitOf(b, k)]

TextAt(lines, i) ==
    LET ds == {j \in 1 .. (i - 1) :
                  lines[j].head \in {Word(".data"), Word(".text")}
                    /\ lines[j].args = <<>>}
    IN  ds = {} \/ lines[CHOOSE j \in ds : \A h \in ds : h <= j].head = Word(".text")

IsSection(lines, i) ==
    lines[i].head \in {Word(".data"), Word(".text")} /\ lines[i].args = <<>>

IsLabelDef(lines, i) ==
    TextAt(lines, i) /\ lines[i].head.k = "colon" /\ lines[i].args = <<>>

IsInstr(lines, i) ==
    TextAt(lines, i) /\ ~IsSection(lines, i) /\ ~IsLabelDef(lines, i)

\* the byte length of the preload block of a source
PreloadLen(lines) ==
    LET n == Cardinality({i \in 1 .. Len(lines) :
                 ~TextAt(lines, i) /\ ~IsSection(lines, i)
                   /\ lines[i].head = Word("byte")})
    IN  IF n = 0 THEN 0 ELSE 2 + 2 * n + 2

\* the lines that define the label an operand token names
LabelDefs(lines, t) ==
    {i \in 1 .. Len(lines) :
        /\ IsLabelDef(lines, i)
        /\ \/ t.k = "word" /\ Lower(lines[i].head.v) = Lower(t.v)
           \/ t.k = "reg" /\ Lower(lines[i].head.v) = RegName(t.v)}

\* the source line of the n-th instruction
NthInstr(lines, n) ==
    CHOOSE i \in 1 .. Len(lines) :
        /\ IsInstr(lines, i)
        /\ Cardinality({j \in 1 .. (i - 1) : IsInstr(lines, j)}) = n - 1

DuplicateLabel(lines) ==
    \E i, j \in 1 .. Len(lines) :
        /\ i < j /\ IsLabelDef(lines, i) /\ IsLabelDef(lines, j)
        /\ Lower(lines[i].head.v) = Lower(lines[j].head.v)

\* C20: every operand that names a label, in any spelling of its letters'
\* case, before or after the definition, resolves to 2 * k + L, k the number
\* of instructions before the definition and L the length of the preload
\* block; a source that defines a label twice does not assemble.
C20_Labels ==
    asm_pc = "assembled" =>
        /\ DuplicateLabel(asm_in) => ~asm_out.ok
        /\ asm_out.ok =>
              \A n \in 1 .. Len(resolved) : \A m \in 1 .. Len(resolved[n]) :
                  LET t == asm_in[NthInstr(asm_in, n)].args[m][1]
                  IN  \A d \in LabelDefs(asm_in, t) :
                          resolved[n][m] =
                              2 * Cardinality({j \in 1 .. (d - 1) : IsInstr(asm_in, j)})
                                + PreloadLen(asm_in)

\* a label defined as End after three instructions and a preload block of
\* one pair, used as END before and as end after its definition
C20_Witness ==
    /\ asm_pc = "assembled"
    /\ asm_in = DataLines(<<<<5, 123>>>>) \o <<Line(Word(".text"), <<>>)>>
                   \o LabelText("End", "END", "End")
    /\ asm_out.ok
    /\ resolved[1][2] = 12
    /\ resolved[5][2] = 12

\* C21: Maze.move(dir), for each of the four directions, adds exactly 1 to
\* total_steps; when the target cell is in bounds and not WALL the player
\* moves to it, valid_moves grows by 1 and the cell joins visited; otherwise
\* player, valid_moves and visited stay as they are.  Grid, start and finish
\* are unchanged in both cases.
C21_Move ==
    [][maze_pc = "ready" /\ maze_op' \in Dirs
       => LET t == <<maze.player[1] + MoveMap(maze_op')[1],
                     maze.player[2] + MoveMap(maze_op')[2]>>
              free == t \in DOMAIN grid /\ grid[t] # WALL
          IN  /\ maze'.total_steps = maze.total_steps + 1
              /\ IF free
                 THEN /\ maze'.player = t
                      /\ maze'.valid_moves = maze.valid_moves + 1
                      /\ maze'.visited = maze.visited \cup {t}
                 ELSE /\ maze'.player = maze.player
                      /\ maze'.valid_moves = maze.valid_moves
                      /\ maze'.visited = maze.visited
              /\ grid' = grid
              /\ start_position' = start_position
              /\ finish' = finish]_vars

\* a move into a wall after at least one move into a floor cell
C21_Witness ==
    /\ maze_op \in Dirs
    /\ maze_before.valid_moves >= 1
    /\ maze.valid_moves = maze_before.valid_moves
    /\ maze.total_steps = maze_before.total_steps + 1

\* C22: after construction and after any sequence of move and reset
\* operations, visited contains the current player cell.
C22_Visited == maze_pc = "ready" => maze.player \in maze.visited

\* the player has walked away from the start through two further cells
C22_Witness ==
    /\ maze_pc = "ready"
    /\ maze_op \in Dirs
    /\ maze.player # start_position
    /\ Cardinality(maze.visited) >= 3

\* C23: Maze.reset(), whatever moves preceded it, puts the player on the start
\* cell with total_steps = 0, valid_moves = 0 and visited = {start}; width,
\* height, grid, start and finish are unchanged.
C23_Reset ==
    [][maze_pc = "ready" /\ maze_op' = "reset"
       => /\ maze' = [player |-> start_position, total_steps |-> 0,
                       valid_moves |-> 0, visited |-> {start_position}]
          /\ width' = width
          /\ height' = height
          /\ grid' = grid
          /\ start_position' = start_position
          /\ finish' = finish]_vars

\* a reset after valid and blocked moves that left the player off the start
C23_Witness ==
    /\ maze_op = "reset"
    /\ maze_before.valid_moves >= 1
    /\ maze_before.total_steps > maze_before.valid_moves
    /\ maze_before.player # start_position
    /\ maze.player = start_position
    /\ maze.total_steps = 0

\* C24: grade_maze_performance returns (10000 if the player is on the finish
\* cell, else 0) + 50 * |visited| + 5 * valid_moves - total_steps
\* - (100 if result.halted, else 0).
C24_Grade ==
    maze_op = "grade"
    => score = (IF maze.player = finish THEN 10000 ELSE 0)
               + 50 * Cardinality(maze.visited)
               + 5 * maze.valid_moves
               - maze.total_steps
               - (IF result.halted THEN 100 ELSE 0)

\* a halted run graded with the player on the finish after a blocked move
C24_Witness ==
    /\ maze_op = "grade"
    /\ maze.player = finish
    /\ result.halted
    /\ maze.total_steps > maze.valid_moves
    /\ score = 10000 + 50 * Cardinality(maze.visited) + 5 * maze.valid_moves
               - maze.total_steps - 100

\* C25: for every population size N >= 1, odd or even, one generation of
\* GeneticAlgo.run produces a population of exactly N individuals, so the
\* size never changes.
C25_PopulationSize == [][Len(population') = Len(population)]_vars

\* C26: when every individual of the initial population has an even number
\* of bytes, every individual of every later population has an even number
\* of bytes, for any mutation rate and crossover rate.
C26_EvenBytes == \A k \in DOMAIN population : Len(population[k]) % 2 = 0

\* the maze a run leaves behind when it alone invokes the handlers of plan
\* from the n-th on, starting from m
RECURSIVE Walk(_, _, _)
Walk(m, plan, n) ==
    IF n > Len(plan) THEN m ELSE Walk(MazeCalled(plan[n], m), plan, n + 1)

\* C27: within one generation the evaluations are independent: the score of
\* an individual is the one its own program earns on a freshly reset maze,
\* also when evaluations run interleaved on the pool and drew the same maze.
C27_Independent ==
    \A t \in DOMAIN task_pc :
        task_pc[t] = "graded"
        => task_score[t] =
              LET m == Walk([player |-> start_position, total_steps |-> 0,
                             valid_moves |-> 0, visited |-> {start_position}],
                            task_plan[t], 1)
              IN  (IF m.player = finish THEN 10000 ELSE 0)
                  + 50 * Cardinality(m.visited) + 5 * m.valid_moves
                  - m.total_steps - (IF task_halt[t] THEN 100 ELSE 0)

\* two evaluations, one walking down and one walking right on the same maze
\* of the test set, both graded with the score of their own walk
C27_Witness ==
    /\ task_pc = [t \in Tasks |-> "graded"]
    /\ task_plan[1] = <<17, 17>>
    /\ task_plan[2] = <<19, 16>>
    /\ task_halt = [t \in Tasks |-> FALSE]
    /\ task_score[1] = 158
    /\ task_score[2] = 103

\* C28: run(population, total_generations = G) with G >= 1 and no exit
\* predicate goes through the generations one after the other, calls
\* test_func G times, selection and reproduction G - 1 times and the finish
\* hook once, and returns the scored population of the last evaluation; with
\* G = 0 and no predicate it raises ValueError before any evaluation.
C28_Run ==
    /\ ga_pc \in {"test", "select"}
       => /\ calls.select = current_generation
          /\ calls.reproduce = current_generation
          /\ calls.test = current_generation + (IF ga_pc = "select" THEN 1 ELSE 0)
          /\ calls.finish = 0
    /\ ga_pc \in {"returned", "raised"}
       => IF total_generations >= 1
          THEN /\ ga_pc = "returned"
               /\ calls = [test |-> total_generations,
                           select |-> total_generations - 1,
                           reproduce |-> total_generations - 1,
                           finish |-> 1]
               /\ ga_result = scored_population
          ELSE /\ ga_error = "ValueError"
               /\ calls.test = 0

\* the outer border of the grid
Border ==
    {c \in DOMAIN grid : c[1] = 0 \/ c[1] = height - 1
                           \/ c[2] = 0 \/ c[2] = width - 1}

\* C29: for every requested width and height >= 2 (even values raised to the
\* next odd value) the construction of a Maze terminates, and yields a grid
\* whose outer border is all WALL and a start and a finish that are two
\* distinct FLOOR cells.
C29_Construction ==
    <>(/\ maze_pc = "ready"
       /\ width % 2 = 1
       /\ height % 2 = 1
       /\ \A c \in Border : grid[c] = WALL
       /\ start_position # finish
       /\ grid[start_position] = FLOOR
       /\ grid[finish] = FLOOR)

\* C30: every mutation event of _mutate at a bit position has exactly one of
\* three effects: flip inverts that bit and changes nothing else; insert adds
\* one new bit at that position and leaves the value of every original bit;
\* delete removes that bit and leaves the value of every other bit.
C30_MutationEvent ==
    [][mut_events' = mut_events + 1
       => LET old == mutated_bits
              new == mutated_bits'
              at == mut_i + 1
          IN  CASE mut_event'.type = 0 ->
                     /\ Len(new) = Len(old)
                     /\ \A j \in 1 .. Len(old) :
                            new[j] = IF j = at THEN 1 - old[j] ELSE old[j]
                [] mut_event'.type = 1 ->
                     /\ Len(new) = Len(old) + 1
                     /\ new[at] = mut_event'.bit
                     /\ \A j \in 1 .. Len(old) :
                            new[IF j < at THEN j ELSE j + 1] = old[j]
                [] mut_event'.type = 2 ->
                     /\ Len(new) = Len(old) - 1
                     /\ \A j \in 1 .. Len(old) :
                            j # at => new[IF j < at THEN j ELSE j - 1] = old[j]]_vars

\* how often byte v occurs in the byte string bs
Count(bs, v) == Cardinality({k \in DOMAIN bs : bs[k] = v})

\* a[:c] + b[c:], written out byte by byte
HeadTail(a, b, c) == [k \in 1 .. Len(b) |-> IF k <= c THEN a[k] ELSE b[k]]

\* C31: _crossover(a, b) returns the parents unchanged, or the children
\* a[:c] + b[c:] and b[:c] + a[c:] for one even offset c with
\* 0 <= c <= min(len(a), len(b)): the children are as long as b and as a,
\* and together they hold exactly the bytes of the two parents.
C31_Crossover ==
    cross_pc = "done" =>
        /\ \/ children = <<p1_bytes, p2_bytes>>
           \/ \E c \in 0 .. Min(Len(p1_bytes), Len(p2_bytes)) :
                /\ c % 2 = 0
                /\ children[1] = HeadTail(p1_bytes, p2_bytes, c)
                /\ children[2] = HeadTail(p2_bytes, p1_bytes, c)
                /\ Len(children[1]) = Len(p2_bytes)
                /\ Len(children[2]) = Len(p1_bytes)
        /\ \A v \in 0 .. 255 :
             Count(children[1], v) + Count(children[2], v)
                 = Count(p1_bytes, v) + Count(p2_bytes, v)

C31_Witness ==
    /\ cross_pc = "done"
    /\ crossover = 2
    /\ Len(p1_bytes) = 3
    /\ Len(p2_bytes) = 5
    /\ children = <<<<1, 2, 13, 14, 15>>, <<11, 12, 3>>>>

\* C32: whenever _crossover crosses, the cut lies in the first half of the
\* shorter parent: cut <= min(len(a), len(b)) / 2.
C32_FirstHalf ==
    (cross_pc = "done" /\ crossover # -1) =>
        2 * crossover <= Min(Len(p1_bytes), Len(p2_bytes))

\* C32, as the code has it: whenever _crossover crosses, the cut is an even
\* offset anywhere in the shorter parent, its end included:
\* 0 <= cut <= min(len(a), len(b)).
C32_CutRange ==
    (cross_pc = "done" /\ crossover # -1) =>
        /\ crossover % 2 = 0
        /\ 0 <= crossover
        /\ crossover <= Min(Len(p1_bytes), Len(p2_bytes))

C32_Witness ==
    /\ cross_pc = "done"
    /\ Len(p1_bytes) = 4
    /\ Len(p2_bytes) = 5
    /\ crossover = 4
    /\ children = <<<<1, 2, 3, 4, 15>>, <<11, 12, 13, 14>>>>

\* the least and the greatest score of the generation
MinScore == CHOOSE lo \in {scored_population[k].score : k \in DOMAIN scored_population} :
               \A k \in DOMAIN scored_population : lo <= scored_population[k].score
MaxScore == CHOOSE hi \in {scored_population[k].score : k \in DOMAIN scored_population} :
               \A k \in DOMAIN scored_population : hi >= scored_population[k].score

\* C33: _select weights each individual by (score - min) / (max - min), or
\* by 1 when all scores are equal, and draws both parent lists with these
\* weights: when the scores differ, an individual with the least score is
\* never a parent, and every individual with a higher score can be drawn
\* as either parent of every pair.
C33_Select ==
    /\ select_pc \in {"draw", "done"} =>
          /\ DOMAIN normalized_scores = DOMAIN scored_population
          /\ \A k \in DOMAIN scored_population :
               LET w == normalized_scores[k]
               IN  /\ w.den > 0
                   /\ IF MinScore = MaxScore THEN w.num = w.den
                      ELSE w.num * (MaxScore - MinScore)
                             = (scored_population[k].score - MinScore) * w.den
    /\ select_pc = "done" =>
          /\ Len(chosen) = Len(selected)
          /\ \A n \in DOMAIN chosen : \A side \in 1 .. 2 :
               /\ chosen[n][side] \in DOMAIN scored_population
               /\ selected[n][side]
                     = scored_population[chosen[n][side]].program_bytes
               /\ MinScore # MaxScore =>
                     scored_population[chosen[n][side]].score > MinScore
    /\ (select_pc = "draw" /\ MinScore # MaxScore) =>
          \A k \in DOMAIN scored_population :
             scored_population[k].score > MinScore =>
                \A n \in 1 .. (Len(scored_population) \div 2) :
                   \A side \in 1 .. 2 :
                      ENABLED (SelectDraw /\ chosen'[n][side] = k)

\* the scores are -1, 0 and 2, and the individual in the middle, of weight
\* 1 / 3, was drawn together with the best one
C33_Witness ==
    /\ select_pc = "done"
    /\ Len(scored_population) = 3
    /\ scored_population[1].score = 0
    /\ scored_population[2].score = -1
    /\ scored_population[3].score = 2
    /\ normalized_scores[1].num * 3 = normalized_scores[1].den
    /\ chosen = <<<<1, 3>>>>
    /\ selected = <<<<Individual(1), Individual(3)>>>>

\* C34: result.steps is the number of instructions successfully fetched: a
\* run that ends with the Illegal PC access error after k fetched and
\* executed instructions reports steps = k.
C34_Steps ==
    (status = "returned" /\ result.error = "Illegal PC access") =>
        result.steps = executed

\* C35: run_debug driven to exhaustion ends as run does on the same program,
\* table and budget: for the same reason (a stop, the same fatal error, a
\* write to the protected register included, or the step budget) and with
\* the same registers and memory; the generator ends where run returns.
C35_RunDebug ==
    status \in {"exhausted", "raised"} =>
        /\ (status = "exhausted") = (first.status = "returned")
        /\ result.halted = first.result.halted
        /\ result.error = first.result.error
        /\ result.exit_code = first.result.exit_code
        /\ registers = first.registers
        /\ memory = first.memory

\* C36: the scored population run returns, which the runner saves, is
\* sorted by score in descending order, so the individual at index 0, saved
\* as best_program_hex, has the highest score of the final generation.
C36_Sorted ==
    ga_pc = "returned" =>
        \A x \in DOMAIN ga_result : \A y \in DOMAIN ga_result :
            x < y => ga_result[x].score >= ga_result[y].score

\* C37: for a maze whose start cell is an in-bounds FLOOR cell, after any
\* sequence of moves and resets the player is on an in-bounds cell that is
\* not a wall, so is every visited cell, valid_moves <= total_steps and
\* |visited| <= valid_moves + 1.
C37_MazeState ==
    (maze_pc = "ready" /\ Inb(start_position[1], start_position[2])
        /\ grid[start_position] = FLOOR) =>
        /\ Inb(maze.player[1], maze.player[2])
        /\ grid[maze.player] # WALL
        /\ \A c \in maze.visited : Inb(c[1], c[2]) /\ grid[c] # WALL
        /\ maze.valid_moves <= maze.total_steps
        /\ Cardinality(maze.visited) <= maze.valid_moves + 1

\* two valid moves, one of them back to a cell seen before, and one move
\* into a wall
C37_Witness ==
    /\ maze_pc = "ready"
    /\ grid[start_position] = FLOOR
    /\ maze.total_steps = 3
    /\ maze.valid_moves = 2
    /\ Cardinality(maze.visited) = 2
    /\ maze.player = start_position

\* the bits of the argument of _mutate the loop has not considered yet
OriginalRest ==
    SubSeq(BitsOfBytes(program_bytes), mut_iter + 1, 8 * Len(program_bytes))

\* the cursor of _mutate stands on the next bit of the original string:
\* what lies from it on is the part of the original the loop has not yet
\* considered, untouched; no iteration has had more than one event
C38_Cursor ==
    /\ mut_pc = "loop" =>
          /\ mut_iter <= 8 * Len(program_bytes)
          /\ mut_i <= Len(mutated_bits)
          /\ SubSeq(mutated_bits, mut_i + 1, Len(mutated_bits)) = OriginalRest
          /\ mut_events <= mut_iter
    /\ mut_pc = "done" =>
          IF mutation_rate = 0
          THEN mut_iter = 0 /\ mut_out = program_bytes
          ELSE mut_iter = 8 * Len(program_bytes) /\ mut_events <= mut_iter

C39_Test ==
    /\ pool_pc # "raised"
    /\ pool_pc = "returned" =>
          /\ Len(results) = Cardinality(Tasks)
          /\ \A t \in Tasks :
               \E n \in DOMAIN results :
                  /\ results[n].program_bytes = t
                  /\ results[n].score = task_score[t]

\* the FLOOR cells of the grid
FloorOf(g) == {c \in DOMAIN g : g[c] = FLOOR}

\* two cells next to each other in a row or a column
Adjacent(c, d) ==
    \/ c[1] = d[1] /\ (c[2] = d[2] + 1 \/ d[2] = c[2] + 1)
    \/ c[2] = d[2] /\ (c[1] = d[1] + 1 \/ d[1] = c[1] + 1)

\* the FLOOR cells a walk over adjacent FLOOR cells reaches from those of S
RECURSIVE Reach(_)
Reach(S) ==
    LET more == S \cup {c \in FloorOf(grid) : \E d \in S : Adjacent(c, d)}
    IN  IF more = S THEN S ELSE Reach(more)

\* C40: in every maze _carve_passages produces for odd width and height of
\* at least 5, every FLOOR cell is reachable from every other FLOOR cell
\* through orthogonally adjacent FLOOR cells, so the finish can be reached
\* from the start by valid moves.  Adjacent is symmetric: when every FLOOR
\* cell is reached from one of them, each is reached from each.
C40_Connected ==
    (width >= 5 /\ height >= 5) =>
        /\ maze_pc = "start" =>
              Reach({CHOOSE c \in FloorOf(grid) : TRUE}) = FloorOf(grid)
        /\ maze_pc = "ready" =>
              /\ grid[start_position] = FLOOR
              /\ grid[finish] = FLOOR
              /\ finish \in Reach({start_position})

\* a maze of 7 x 7 cells: nine odd cells joined by eight opened walls, start
\* and finish in opposite corners
C40_Witness ==
    /\ maze_pc = "ready"
    /\ width = 7
    /\ height = 7
    /\ Cardinality(FloorOf(grid)) = 17
    /\ start_position = <<1, 1>>
    /\ finish = <<5, 5>>

====
